---------------------------- MODULE Spec2Model ----------------------------
(***************************************************************************)
(* Position lifecycle and reconciliation engine of the liquidation         *)
(* counter-trader: executor.js (executeTrade, executeDCA, tightenAllSLs),  *)
(* monitor.js (syncPositions, ensureProtectionOnPosition,                  *)
(* fetchBybitCloseData, recordClose, reconcilePnl, hydratePnl) and the     *)
(* venue they talk to.  Every await of the source is a step boundary: an   *)
(* action is one remote call's completion together with the synchronous    *)
(* code that runs up to the next await.                                    *)
(*                                                                         *)
(* Units: prices, balances and notionals are integers in one price unit;   *)
(* the tick is TickSize units, so the venue's average prices may lie off   *)
(* the tick grid.  Quantities are integers in lots of LotSize.  Time is in *)
(* units of TimeUnitMs milliseconds.  null / 0 / undefined of the source   *)
(* are all 0 (the source tests them by truthiness).                        *)
(***************************************************************************)
EXTENDS Integers, Sequences, FiniteSets, TLC

(***************************************************************************)
(* Bounds of the model                                                     *)
(***************************************************************************)
NumProcs == 2          \* executeTrade invocations that may be in flight at once
MaxEvents == 2         \* liquidation events handed to executeTrade in one run of Spec
MaxDcaEvents == 3      \* the same in one run of SpecDca
MaxHealEvents == 1     \* the same in one run of SpecHeal
StartTime == 4         \* the clock at startup in SpecMon: the loaded position is older
MaxObj == 3            \* position objects created in one run
MaxTime == 6           \* the clock runs from 1 to MaxTime, in units of TimeUnitMs
MaxClosed == 2         \* settlements the venue lists in one run
MaxHistory == 3        \* records of the PnL history in one run
NumTicks == 2          \* syncPositions runs that may overlap
NumMatches == 2        \* settlement matches that may be in flight at once
NumSweeps == 2         \* reconcilePnl runs that may overlap
RestartTime == 73      \* the clock at the restart in SpecHydrate
FileLen == 2           \* write(2) calls it takes to write one snapshot file
MaxSaves == 3          \* saveJSON calls in one run of SpecSave
MatchLen == 2          \* settlements the venue lists at the start of SpecMatch
ResetTime == 2         \* the clock at the PnL reset in SpecReset

Symbols == {"s1", "s2"}
Procs == 1..NumProcs
Sides == {"Buy", "Sell"}
EventPrices == {40}
SizePrices == {20, 40, 60}
Balances == {0, 1000}
AtrValues == {0, 2}          \* 0: indicator unavailable

(***************************************************************************)
(* Program constants                                                       *)
(***************************************************************************)
DCA_SPLITS == <<10, 20, 30, 40>>     \* percent of the position budget
positionSizeUsd == 50
leverage == 5
totalRiskPct == 5
minPositionPct == 50
minTpPct == 1
takeProfitPctX10 == 3                \* takeProfitPct 0.3
tpAtrMultiplierX10 == 15             \* tpAtrMultiplier 1.5
slAtrMultiplier == 1
trailingAtrMultiplierX10 == 15       \* trailingAtrMultiplier 1.5
feeBufferX10000 == 15                \* entryPrice * 0.0015
maxSlOffsetX10 == 9                  \* price * 0.9
TickSize == 2
LotSize == 1
MinQty == 1
TimeUnitMs == 5000
GraceMs == 15000
DedupMs == 10000

(***************************************************************************)
(* Arithmetic of the source on rationals <<n, d>>, d > 0; d = 0 is the     *)
(* Infinity that a division by zero gives.                                 *)
(***************************************************************************)
Max(a, b) == IF a >= b THEN a ELSE b
Min(a, b) == IF a <= b THEN a ELSE b
Abs(a) == IF a >= 0 THEN a ELSE -a

Rat(n, d) == <<n, d>>
RLess(a, b) ==
  IF a[2] = 0 THEN FALSE
  ELSE IF b[2] = 0 THEN TRUE
  ELSE a[1] * b[2] < b[1] * a[2]

\* instrumentCache.roundPrice: Math.round(price / tick) * tick
roundPrice(x) == TickSize * ((2 * x[1] + x[2] * TickSize) \div (2 * x[2] * TickSize))

\* instrumentCache.roundQty: Math.floor(qty / step) * step
roundQty(x) == IF x[2] = 0 THEN 0 ELSE LotSize * (x[1] \div (x[2] * LotSize))

\* getMaxLossPerPosition: initialBalance * (totalRiskPct / 100) / positionCount
getMaxLossPerPosition(balance, positionCount) ==
  Rat(balance * totalRiskPct, 100 * positionCount)

\* slOffset = maxLossUsd / expectedQty, raised to one tick, capped at 0.9 * ref
SlOffsetClamp(raw, ref) ==
  LET tickUp == IF RLess(raw, Rat(TickSize, 1)) THEN Rat(TickSize, 1) ELSE raw
      cap == Rat(maxSlOffsetX10 * ref, 10)
  IN IF RLess(cap, tickUp) THEN cap ELSE tickUp

RiskSlOffset(balance, positionCount, expectedQty, ref) ==
  LET m == getMaxLossPerPosition(balance, positionCount)
  IN SlOffsetClamp(Rat(m[1], m[2] * expectedQty), ref)

\* side === 'Buy' ? roundPrice(ref - off) : roundPrice(ref + off)
StopPrice(side, ref, off) ==
  IF side = "Buy" THEN roundPrice(Rat(ref * off[2] - off[1], off[2]))
  ELSE roundPrice(Rat(ref * off[2] + off[1], off[2]))


(***************************************************************************)
(* State                                                                   *)
(***************************************************************************)
VARIABLES
  maxPositions,      \* config.maxPositions
  entryOrderType,    \* config.entryOrderType: "Market" or "Limit"
  initialBalance,    \* executor.js initialBalance
  activePositions,   \* the Ledger: symbol -> position object (index in heap), 0: none
  heap,              \* the position objects ever created, in creation order
  pendingSymbols,    \* the per-symbol locks
  inv,               \* the executeTrade invocations: locals and position in the code
  nEvents,           \* liquidation events handed to executeTrade so far
  remote,            \* the venue's open position per symbol
  book,              \* the venue's resting limit orders that no invocation waits for
  now,               \* Date.now() in units of TimeUnitMs
  tick,              \* the syncPositions runs in flight (they may overlap)
  match,             \* the fetchBybitCloseData / recordClose runs in flight
  sweep,             \* the reconcilePnl runs in flight
  recentlyClosedSymbols,  \* monitor.js: symbol -> time of the last close decision, 0: none
  pnlHistory,        \* monitor.js pnlHistory, newest first
  usedCloseOrderIds, \* monitor.js usedCloseOrderIds
  resetTimestamp,    \* monitor.js resetTimestamp
  closedPnl,         \* the venue's closed-PnL records, newest first
  restores,          \* protective orders the health check re-sent, not yet answered
  files,             \* the data directory: path -> file
  save               \* the saveJSON call in progress, and the process around it

monitorVars == <<tick, match, sweep, recentlyClosedSymbols, pnlHistory, usedCloseOrderIds,
                 resetTimestamp, closedPnl, restores>>

storeVars == <<files, save>>

engineVars == <<maxPositions, entryOrderType, initialBalance, activePositions, heap,
                pendingSymbols, inv, nEvents, remote, book, now>>

vars == <<engineVars, monitorVars, storeVars>>

NoRemote == [size |-> 0, side |-> "", avgPrice |-> 0, stopLoss |-> 0,
             takeProfit |-> 0, trailingStop |-> 0, createdTime |-> 0]

Idle == [pc |-> "idle", symbol |-> "", side |-> "", price |-> 0, ref |-> 0,
         nextLevel |-> 0, qty |-> 0, totalBudget |-> 0, slOffset |-> <<0, 1>>,
         atr |-> 0, trailingStopDist |-> 0, fillPrice |-> 0, slPrice |-> 0,
         tpPrice |-> 0, trailActivePrice |-> 0, order |-> "none", limitPrice |-> 0,
         accepted |-> 0, newTotalQty |-> 0, cursor |-> 0, positionCount |-> 0,
         newSL |-> 0, status |-> "", reason |-> "", position |-> 0, msg |-> 0,
         liqSide |-> ""]

ActiveSymbols == {s \in Symbols : activePositions[s] # 0}

\* a capacity gate that never closes, and a lock check that never finds a lock
MaxPositionsNever(pending) == FALSE
TradePendingNever(pending, s) == FALSE

\* activePositions.size + pendingSymbols.size >= config.maxPositions
MaxPositionsReached(pending) ==
  Cardinality(ActiveSymbols) + Cardinality(pending) >= maxPositions

\* pendingSymbols.has(symbol)
TradePending(pending, s) == s \in pending

\* logTrade(liqEvent, status, detail, ..) followed by return: the terminal
\* outcome of an invocation; position is the object returned (0: null).  The
\* locals die with the return: what is kept is the event's symbol, whether it
\* was an add to a position (ref), the orders the venue accepted for it and
\* what became of the order it waited for; msg numbers the stream message
\* that carried the event (no field of the source).  liqSide is the side of
\* the event of a fresh entry in flight, next to the side of its order.
Outcome(rec, status, reason, position) ==
  [Idle EXCEPT !.pc = "done", !.symbol = rec.symbol, !.ref = rec.ref, !.msg = rec.msg,
               !.nextLevel = rec.nextLevel, !.accepted = rec.accepted,
               !.order = rec.order, !.status = status, !.reason = reason,
               !.position = position]

\* an entry on the side opposite to the event's
tradeSideOpposite(side) == IF side = "Buy" THEN "Sell" ELSE "Buy"

\* 338: tradeSide = side === 'Buy' ? 'Buy' : 'Sell'; the event's side is Buy
\* when longs were liquidated (scanner.js 77)
tradeSide(side) == IF side = "Buy" THEN "Buy" ELSE "Sell"

\* totalBudget = max(positionSizeUsd * leverage, initialBalance * minPositionPct / 100)
TotalBudget(balance) ==
  Max(positionSizeUsd * leverage, (balance * minPositionPct) \div 100)

\* roundQty(symbol, totalBudget * DCA_SPLITS[level] / price)
SplitQty(totalBudget, level, price) ==
  roundQty(Rat(totalBudget * DCA_SPLITS[level + 1], 100 * price))

(***************************************************************************)
(* executeTrade, from its call to its first await (executor.js 235-354),   *)
(* as a function of the invocations and locks it finds (st) to those it    *)
(* leaves.  pre is the result of the synchronous instrument / volume       *)
(* lookups.                                                                *)
(***************************************************************************)
PreChecks == {"ok", "Unknown instrument", "Pre-listing/blocked coin", "Low volume"}

ExecuteTrade(st, p, s, side, price, pre) ==
  LET ev == [Idle EXCEPT !.symbol = s, !.side = side, !.price = price, !.msg = nEvents + 1]
      existingPos == activePositions[s]
      totalBudget == TotalBudget(initialBalance)
      qty == SplitQty(totalBudget, 0, price)
      Ends(status, reason) ==
        [st EXCEPT !.inv[p] = Outcome(ev, status, reason, 0)]
  IN
  IF MaxPositionsReached(st.pendingSymbols) THEN Ends("SKIPPED", "Max positions reached")
  ELSE IF TradePending(st.pendingSymbols, s) THEN Ends("SKIPPED", "Trade pending on symbol")
  ELSE IF existingPos # 0 THEN
    \* DCA path: the lock is taken later, in executeDCA, after await getVWAP
    IF heap[existingPos].dcaLevel >= Len(DCA_SPLITS) - 1
      THEN Ends("SKIPPED", "DCA fully filled")
      ELSE [st EXCEPT !.inv[p] = [ev EXCEPT !.pc = "vwap", !.ref = existingPos]]
  \* pendingSymbols.add(symbol); try { ... } finally { pendingSymbols.delete(symbol) }
  ELSE IF pre # "ok" THEN
    [Ends("SKIPPED", pre) EXCEPT !.pendingSymbols = @ \ {s}]
  ELSE IF initialBalance <= 0 THEN
    [Ends("SKIPPED", "No account balance loaded") EXCEPT !.pendingSymbols = @ \ {s}]
  ELSE IF qty < MinQty THEN
    [Ends("SKIPPED", "Qty below minimum") EXCEPT !.pendingSymbols = @ \ {s}]
  ELSE
    [inv |-> [st.inv EXCEPT ![p] = [ev EXCEPT !.pc = "atr", !.side = tradeSide(side),
                                              !.liqSide = side, !.qty = qty,
                                              !.totalBudget = totalBudget]],
     pendingSymbols |-> st.pendingSymbols \cup {s}]

\* the first free invocation slot (0: none)
FreeSlot(invs) ==
  IF \E p \in Procs : invs[p].pc = "idle"
    THEN CHOOSE p \in Procs : invs[p].pc = "idle" /\ \A q \in Procs : q < p => invs[q].pc # "idle"
    ELSE 0

\* scanner.js 55-91 and index.js 99-105: one message of the liquidation
\* stream carries one or more items; the handler calls executeTrade for each
\* qualifying item in turn, without awaiting any of them
OnMessage(items) ==
  /\ Len(items) \in 1..2
  /\ Cardinality({p \in Procs : inv[p].pc = "idle"}) >= Len(items)
  /\ LET Call(st, i) == ExecuteTrade(st, FreeSlot(st.inv), items[i].symbol, items[i].side,
                                     items[i].price, items[i].pre)
         st0 == [inv |-> inv, pendingSymbols |-> pendingSymbols]
         st1 == Call(st0, 1)
         st2 == IF Len(items) = 2 THEN Call(st1, 2) ELSE st1
     IN /\ inv' = st2.inv
        /\ pendingSymbols' = st2.pendingSymbols
  /\ nEvents' = nEvents + Len(items)
  /\ UNCHANGED <<monitorVars, storeVars, maxPositions, entryOrderType, initialBalance, activePositions,
                 heap, remote, book, now>>

(***************************************************************************)
(* The venue (external): fills, protective orders                          *)
(***************************************************************************)
RoundDiv(n, d) == (2 * n + d) \div (2 * d)

\* the open position after an order of qty at price is filled (one-way mode)
VenueAfterFill(rem, side, qty, price) ==
  IF rem.size = 0 THEN
    [NoRemote EXCEPT !.size = qty, !.side = side, !.avgPrice = price,
                     !.createdTime = now]
  ELSE IF rem.side = side THEN
    [rem EXCEPT !.size = @ + qty,
                !.avgPrice = RoundDiv(rem.size * rem.avgPrice + qty * price, rem.size + qty)]
  ELSE IF qty < rem.size THEN [rem EXCEPT !.size = @ - qty]
  ELSE IF qty = rem.size THEN NoRemote
  ELSE [NoRemote EXCEPT !.size = qty - rem.size, !.side = side, !.avgPrice = price,
                        !.createdTime = now]

\* n market orders of qty filled at price
VenueAfterFills(rem, side, qty, price, n) ==
  IF n = 0 THEN rem
  ELSE IF n = 1 THEN VenueAfterFill(rem, side, qty, price)
  ELSE VenueAfterFill(VenueAfterFill(rem, side, qty, price), side, qty, price)

\* setTradingStop as the venue applies it: only the fields sent change
VenueAfterStop(rem, stopLoss, takeProfit, trailingStop) ==
  [rem EXCEPT !.stopLoss = IF stopLoss # 0 THEN stopLoss ELSE @,
              !.takeProfit = IF takeProfit # 0 THEN takeProfit ELSE @,
              !.trailingStop = IF trailingStop # 0 THEN trailingStop ELSE @]

\* what a remote call can come back with; the venue refuses protective
\* orders for a symbol on which it holds no position
CallResults == {"ok", "rejected", "thrown"}
StopResults(s) == IF remote[s].size > 0 THEN CallResults ELSE {"rejected", "thrown"}

(***************************************************************************)
(* Order submission (executor.js 442-539, 747-831): the low-latency        *)
(* channel first when it is ready, the standard channel when the first     *)
(* throws.  ws: what placeOrderWs did; rest: what placeOrder did.          *)
(*   "ok"       resolved with retCode 0, the venue accepted the order      *)
(*   "rejected" resolved with retCode # 0                                  *)
(*   "lost"     threw, the venue never saw the order                       *)
(*   "timeout"  threw (5 s timer of placeOrderWs, transport error) after   *)
(*              the venue accepted the order                               *)
(*   "notready" isTradeWsReady() was false                                 *)
(***************************************************************************)
WsResults == {"notready", "ok", "rejected", "lost", "timeout"}
RestResults == {"ok", "rejected", "lost"}

UsesRest(ws) == ws \in {"notready", "lost", "timeout"}

\* orderResult of the submission: "ok", "rejected", or "thrown" to the caller
SubmitResult(ws, rest) ==
  IF UsesRest(ws)
    THEN (IF rest = "lost" THEN "thrown" ELSE rest)
    ELSE ws

\* orders the venue accepted in the submission
SubmitAccepted(ws, rest) ==
  (IF ws \in {"ok", "timeout"} THEN 1 ELSE 0)
  + (IF UsesRest(ws) /\ rest = "ok" THEN 1 ELSE 0)

(***************************************************************************)
(* executeTrade, fresh entry (executor.js 356-714)                         *)
(***************************************************************************)
\* a resting order nobody waits for any more joins the venue's book when
\* its invocation ends
Leftover(rec) ==
  IF rec.order = "resting"
    THEN {[symbol |-> rec.symbol, side |-> rec.side, qty |-> rec.qty,
           price |-> rec.limitPrice]}
    ELSE {}

\* after await switchToOneWayMode / setLeverage / getATR (356-439):
\* trailing distance and the shared-risk stop offset from the liquidation price
FreshPrepare(p, atrValue) ==
  /\ inv[p].pc = "atr"
  /\ LET rec == inv[p]
         rounded == roundPrice(Rat(atrValue * trailingAtrMultiplierX10, 10))
         trailingStopDist ==
           IF atrValue > 0 THEN (IF rounded = 0 THEN TickSize ELSE rounded) ELSE 0
         positionCount == Cardinality(ActiveSymbols) + 1
         totalExpectedQty == roundQty(Rat(rec.totalBudget, rec.price))
         slOffset == RiskSlOffset(initialBalance, positionCount, totalExpectedQty, rec.price)
     IN inv' = [inv EXCEPT ![p] = [rec EXCEPT !.pc = "order", !.atr = atrValue,
                                   !.trailingStopDist = trailingStopDist,
                                   !.slOffset = slOffset]]
  /\ UNCHANGED <<monitorVars, storeVars, maxPositions, entryOrderType, initialBalance, activePositions, heap,
                 pendingSymbols, nEvents, remote, book, now>>

\* 843: newTotalQty = existingPos.qty + qty, read before await getPositions
EstimatedQty(rec) == IF rec.ref = 0 THEN 0 ELSE heap[rec.ref].qty + rec.qty

\* an outer catch that lets the error through: no entry, the caller gets it
Rethrown(p, rec) ==
  /\ inv' = [inv EXCEPT ![p] = Idle]
  /\ pendingSymbols' = pendingSymbols \ {rec.symbol}


\* the ERROR outcome of the outer catch, and the finally that drops the lock
Thrown(p, rec) ==
  /\ inv' = [inv EXCEPT ![p] = Outcome(rec, "ERROR", "thrown", 0)]
  /\ pendingSymbols' = pendingSymbols \ {rec.symbol}

\* a passive order: the orders the venue accepted rest; the invocation waits
\* for the one whose id it was given, the others stay in the book
LimitSubmit(p, limitPrice, ws, rest, skipReason) ==
  LET rec == [inv[p] EXCEPT !.limitPrice = limitPrice,
                            !.accepted = @ + SubmitAccepted(ws, rest)]
      res == SubmitResult(ws, rest)
      mine == IF res = "ok" THEN 1 ELSE 0
      stray == [symbol |-> rec.symbol, side |-> rec.side, qty |-> rec.qty,
                price |-> limitPrice]
  IN /\ book' = IF SubmitAccepted(ws, rest) > mine THEN book \cup {stray} ELSE book
     /\ UNCHANGED remote
     /\ IF res = "thrown" THEN Thrown(p, rec)
        ELSE IF res = "rejected" THEN
          /\ inv' = [inv EXCEPT ![p] = Outcome(rec, "SKIPPED", skipReason, 0)]
          /\ pendingSymbols' = pendingSymbols \ {rec.symbol}
        ELSE
          /\ inv' = [inv EXCEPT ![p] = [rec EXCEPT !.pc = "fillwait", !.order = "resting"]]
          /\ UNCHANGED pendingSymbols

\* a market order: every order the venue accepted is filled at once, at fill
MarketSubmit(p, fill, ws, rest, failPrefix) ==
  LET rec == [inv[p] EXCEPT !.accepted = @ + SubmitAccepted(ws, rest)]
      res == SubmitResult(ws, rest)
  IN /\ remote' = [remote EXCEPT ![rec.symbol] =
                     VenueAfterFills(@, rec.side, rec.qty, fill, SubmitAccepted(ws, rest))]
     /\ UNCHANGED book
     /\ IF res = "thrown" THEN Thrown(p, rec)
        ELSE IF res = "rejected" THEN
          /\ inv' = [inv EXCEPT ![p] = Outcome(rec, "FAILED", failPrefix, 0)]
          /\ pendingSymbols' = pendingSymbols \ {rec.symbol}
        ELSE
          /\ inv' = [inv EXCEPT ![p] = [rec EXCEPT !.pc = "posfetch", !.order = "filled",
                                                  !.newTotalQty = EstimatedQty(rec)]]
          /\ UNCHANGED pendingSymbols

\* the split level written into the position when its order is accepted
CountAndAdvance(objects, ref, level, n) ==
  IF ref = 0 \/ n = 0 THEN objects
  ELSE [objects EXCEPT ![ref].orders[level + 1] = @ + n, ![ref].dcaLevel = level]


\* orders accepted for a split level of a position object (bookkeeping of the
\* model, no field of the source)
CountOrders(objects, ref, level, n) ==
  IF ref = 0 \/ n = 0 THEN objects
  ELSE [objects EXCEPT ![ref].orders[level + 1] = @ + n]

\* 442-547 and 747-839: limitPrice is the best bid/ask of getOrderbook
\* (0: unavailable); the venue accepts no order whose quantity is not a number
PlaceEntry(p, limitPrice, fill, ws, rest) ==
  /\ inv[p].pc = "order"
  /\ inv[p].qty <= 0 => SubmitAccepted(ws, rest) = 0
  /\ IF entryOrderType = "Limit" /\ limitPrice # 0
       THEN LimitSubmit(p, limitPrice, ws, rest,
                        IF inv[p].ref = 0 THEN "Limit rejected" ELSE "DCA limit rejected")
       ELSE MarketSubmit(p, fill, ws, rest,
                         IF inv[p].ref = 0 THEN "order failed" ELSE "DCA: order failed")
  /\ heap' = CountOrders(heap, inv[p].ref, inv[p].nextLevel, SubmitAccepted(ws, rest))
  /\ UNCHANGED <<monitorVars, storeVars, maxPositions, entryOrderType, initialBalance, activePositions,
                 nEvents, now>>

\* the venue fills the resting order an invocation waits for
VenueFillOrder(p) ==
  /\ inv[p].order = "resting"
  /\ inv[p].pc \notin {"idle", "done"}
  /\ remote' = [remote EXCEPT ![inv[p].symbol] =
                  VenueAfterFill(@, inv[p].side, inv[p].qty, inv[p].limitPrice)]
  /\ inv' = [inv EXCEPT ![p].order = "filled"]
  /\ UNCHANGED <<monitorVars, storeVars, maxPositions, entryOrderType, initialBalance, activePositions, heap,
                 pendingSymbols, nEvents, book, now>>

\* the venue fills a resting order nobody waits for
VenueFillStray(o) ==
  /\ o \in book
  /\ book' = book \ {o}
  /\ remote' = [remote EXCEPT ![o.symbol] = VenueAfterFill(@, o.side, o.qty, o.price)]
  /\ UNCHANGED <<monitorVars, storeVars, maxPositions, entryOrderType, initialBalance, activePositions, heap,
                 pendingSymbols, inv, nEvents, now>>

\* 501-522: after the 2 s wait, getOrderDetail; check is what it returned
\* ("status": retCode 0 with the order; "failed": retCode # 0 or an empty
\* list; "thrown"), cancelled is whether cancelOrder took the order back
FillCheck(p, check, cancelled, skipReason) ==
  LET rec == inv[p]
  IN IF check = "status" /\ rec.order # "filled" THEN
       /\ inv' = [inv EXCEPT ![p] =
                    Outcome([rec EXCEPT !.order = IF cancelled THEN "cancelled" ELSE "left"],
                            "SKIPPED", skipReason, 0)]
       /\ book' = IF cancelled THEN book ELSE book \cup Leftover(rec)
       /\ pendingSymbols' = pendingSymbols \ {rec.symbol}
     ELSE
       /\ inv' = [inv EXCEPT ![p] = [rec EXCEPT !.pc = "posfetch",
                                               !.newTotalQty = EstimatedQty(rec)]]
       /\ UNCHANGED <<book, pendingSymbols>>

AwaitFill(p, check, cancelled) ==
  /\ inv[p].pc = "fillwait"
  /\ FillCheck(p, check, cancelled,
               IF inv[p].ref = 0 THEN "Limit not filled" ELSE "DCA limit not filled")
  /\ UNCHANGED <<monitorVars, storeVars, maxPositions, entryOrderType, initialBalance, activePositions, heap,
                 nEvents, remote, now>>

\* fixed-percentage / ATR take profit from ref, widened to the minimum profit
\* (381-419, 578-599); notional = totalBudget * DCA_SPLITS[0]
TakeProfit(side, ref, atrValue, totalBudget, qty) ==
  LET sgn == IF side = "Buy" THEN 1 ELSE -1
      tp == IF atrValue > 0
              THEN roundPrice(Rat(10 * ref + sgn * atrValue * tpAtrMultiplierX10, 10))
              ELSE roundPrice(Rat(ref * (1000 + sgn * takeProfitPctX10), 1000))
      minTpOffset == Rat(totalBudget * DCA_SPLITS[1] * minTpPct, 10000 * qty)
      tpWide == roundPrice(Rat(ref * minTpOffset[2] + sgn * minTpOffset[1], minTpOffset[2]))
  IN IF RLess(Rat(Abs(tp - ref), 1), minTpOffset) THEN tpWide ELSE tp

\* activePrice = entry +- (trailing distance + fee buffer) (617-624, 188-194)
TrailActive(side, ref, dist) ==
  LET feeBuffer == roundPrice(Rat(ref * feeBufferX10000, 10000))
  IN IF side = "Buy" THEN roundPrice(Rat(ref + dist + feeBuffer, 1))
     ELSE roundPrice(Rat(ref - dist - feeBuffer, 1))

\* 551-624: getPositions gives the fill price (found: the call succeeded and
\* lists the symbol), then the stop, target and trailing activation from it
FetchFill(p, found) ==
  /\ inv[p].pc = "posfetch"
  /\ found => remote[inv[p].symbol].size > 0
  /\ LET rec == inv[p]
         fillPrice == IF found THEN remote[rec.symbol].avgPrice ELSE rec.price
         slPrice2 == StopPrice(rec.side, fillPrice, rec.slOffset)
         tpPrice == IF rec.trailingStopDist # 0 THEN 0
                    ELSE TakeProfit(rec.side, fillPrice, rec.atr, rec.totalBudget, rec.qty)
         trailActivePrice == IF rec.trailingStopDist # 0
                               THEN TrailActive(rec.side, fillPrice, rec.trailingStopDist)
                               ELSE 0
         \* executeDCA 841-884: the same from the position's new average price
         existingPos == heap[rec.ref]
         newTotalQty == IF found THEN remote[rec.symbol].size ELSE rec.newTotalQty
         dcaOffset == RiskSlOffset(initialBalance, Cardinality(ActiveSymbols),
                                   roundQty(Rat(existingPos.totalBudget, fillPrice)),
                                   fillPrice)
         trailDist == existingPos.trailingStop
     IN inv' = [inv EXCEPT ![p] =
                  IF rec.ref = 0
                    THEN [rec EXCEPT !.pc = "setsl", !.fillPrice = fillPrice,
                                     !.slPrice = slPrice2, !.tpPrice = tpPrice,
                                     !.trailActivePrice = trailActivePrice]
                    ELSE [rec EXCEPT !.pc = "setsl", !.fillPrice = fillPrice,
                                     !.newTotalQty = newTotalQty,
                                     !.slOffset = dcaOffset,
                                     !.slPrice = StopPrice(rec.side, fillPrice, dcaOffset),
                                     !.trailingStopDist = trailDist,
                                     !.trailActivePrice =
                                        IF trailDist # 0
                                          THEN TrailActive(rec.side, fillPrice, trailDist)
                                          ELSE 0]]
  /\ UNCHANGED <<monitorVars, storeVars, maxPositions, entryOrderType, initialBalance, activePositions, heap,
                 pendingSymbols, nEvents, remote, book, now>>

\* tightenAllSLs' stop for a position under a risk budget shared by positionCount
TightenedSL(pos, positionCount) ==
  LET expectedQty == IF pos.totalBudget > 0
                       THEN roundQty(Rat(pos.totalBudget, pos.entryPrice))
                       ELSE pos.qty
  IN StopPrice(pos.side, pos.entryPrice,
               RiskSlOffset(initialBalance, positionCount, expectedQty, pos.entryPrice))

\* the loop of tightenAllSLs from the entry after cursor, over the Ledger in
\* insertion order, up to its next await: the object it sends a stop for (0: done)
TightenNext(ledger, objects, cursor, positionCount) ==
  LET todo == {i \in 1..Len(objects) :
                 /\ i > cursor
                 /\ ledger[objects[i].symbol] = i
                 /\ TightenedSL(objects[i], positionCount) # objects[i].slPrice}
  IN IF todo = {} THEN 0 ELSE CHOOSE i \in todo : \A j \in todo : i <= j

\* 653-705: the position object enters the Ledger, the other positions' stops
\* are tightened in a detached task, the invocation returns FILLED
TrackPosition(p, rec) ==
  LET position == [symbol |-> rec.symbol, side |-> rec.side, entryPrice |-> rec.fillPrice,
                   qty |-> rec.qty, tpPrice |-> rec.tpPrice, slPrice |-> rec.slPrice,
                   openTime |-> now, trailingStop |-> rec.trailingStopDist,
                   trailActivePrice |-> rec.trailActivePrice, dcaLevel |-> 0,
                   totalBudget |-> rec.totalBudget, lastEntryPrice |-> rec.fillPrice,
                   origin |-> "engine", orders |-> <<rec.accepted, 0, 0, 0>>]
      objects == Append(heap, position)
      ledger == [activePositions EXCEPT ![rec.symbol] = Len(objects)]
      size == Cardinality({s \in Symbols : ledger[s] # 0})
      first == IF size > 1 THEN TightenNext(ledger, objects, 0, size) ELSE 0
      filled == Outcome([rec EXCEPT !.order = IF @ = "resting" THEN "left" ELSE @],
                        "FILLED", "", Len(objects))
  IN /\ heap' = objects
     /\ activePositions' = ledger
     /\ pendingSymbols' = pendingSymbols \ {rec.symbol}
     /\ book' = book \cup Leftover(rec)
     /\ inv' = [inv EXCEPT ![p] =
                  IF first = 0 THEN filled
                  ELSE [filled EXCEPT !.pc = "tighten", !.cursor = first,
                                      !.positionCount = size,
                                      !.newSL = TightenedSL(objects[first], size)]]

\* executeDCA 907-929: the invocation writes its results into the object it
\* was given, whatever the Ledger holds by now, and drops the lock
UpdatePosition(p, rec) ==
  /\ heap' = [heap EXCEPT ![rec.ref] =
                [@ EXCEPT !.entryPrice = rec.fillPrice,
                          !.qty = rec.newTotalQty,
                          !.slPrice = rec.slPrice,
                          !.trailActivePrice = IF rec.trailActivePrice # 0
                                                 THEN rec.trailActivePrice ELSE @,
                          !.dcaLevel = rec.nextLevel,
                          !.lastEntryPrice = rec.price]]
  /\ pendingSymbols' = pendingSymbols \ {rec.symbol}
  /\ book' = book \cup Leftover(rec)
  /\ inv' = [inv EXCEPT ![p] =
               Outcome([rec EXCEPT !.order = IF @ = "resting" THEN "left" ELSE @],
                       "FILLED", "DCA", rec.ref)]
  /\ UNCHANGED activePositions

Finish(p, rec) == IF rec.ref = 0 THEN TrackPosition(p, rec) ELSE UpdatePosition(p, rec)

\* 626-636, 887-893: await setTradingStop(symbol, {stopLoss, takeProfit})
SetSL(p, res) ==
  /\ inv[p].pc = "setsl"
  /\ res \in StopResults(inv[p].symbol)
  /\ LET rec == inv[p]
     IN /\ remote' = IF res = "ok"
                       THEN [remote EXCEPT ![rec.symbol] =
                               VenueAfterStop(@, rec.slPrice, rec.tpPrice, 0)]
                       ELSE remote
        /\ IF res # "thrown" /\ rec.trailingStopDist # 0 /\ rec.trailActivePrice # 0
             THEN /\ inv' = [inv EXCEPT ![p].pc = "settrail"]
                  /\ UNCHANGED <<activePositions, heap, pendingSymbols, book>>
             ELSE Finish(p, rec)
  /\ UNCHANGED <<monitorVars, storeVars, maxPositions, entryOrderType, initialBalance, nEvents, now>>

\* 638-651: await setTradingStop(symbol, {trailingStop, activePrice})
SetTrail(p, res) ==
  /\ inv[p].pc = "settrail"
  /\ res \in StopResults(inv[p].symbol)
  /\ LET rec == inv[p]
     IN /\ remote' = IF res = "ok"
                       THEN [remote EXCEPT ![rec.symbol] =
                               VenueAfterStop(@, 0, 0, rec.trailingStopDist)]
                       ELSE remote
        /\ Finish(p, rec)
  /\ UNCHANGED <<monitorVars, storeVars, maxPositions, entryOrderType, initialBalance, nEvents, now>>

\* 137-146: the stop request of tightenAllSLs comes back; pos.slPrice is
\* written on success, then the loop runs on to its next request
TightenStep(p, res) ==
  /\ inv[p].pc = "tighten"
  /\ res \in StopResults(heap[inv[p].cursor].symbol)
  /\ LET rec == inv[p]
         pos == heap[rec.cursor]
         newSL == rec.newSL
         objects == IF res = "ok" THEN [heap EXCEPT ![rec.cursor].slPrice = newSL] ELSE heap
         next == TightenNext(activePositions, objects, rec.cursor, rec.positionCount)
     IN /\ heap' = objects
        /\ remote' = IF res = "ok"
                       THEN [remote EXCEPT ![pos.symbol] = VenueAfterStop(@, newSL, 0, 0)]
                       ELSE remote
        /\ inv' = [inv EXCEPT ![p] =
                     IF next = 0
                       THEN [rec EXCEPT !.pc = "done", !.cursor = 0, !.positionCount = 0,
                                        !.newSL = 0]
                       ELSE [rec EXCEPT !.cursor = next,
                                        !.newSL = TightenedSL(objects[next],
                                                              rec.positionCount)]]
  /\ UNCHANGED <<monitorVars, storeVars, maxPositions, entryOrderType, initialBalance, activePositions,
                 pendingSymbols, nEvents, book, now>>

(***************************************************************************)
(* executeTrade, DCA path (executor.js 272-300) and the synchronous head   *)
(* of executeDCA (716-745).  vwapData is what await getVWAP gave: <<vwap,   *)
(* sd>>, or <<>> for null (no data, or the request failed).                *)
(***************************************************************************)
dcaVwapSdMultiplier == 2
AtLowerBand == <<44, 2>>
VwapResults == {<<>>, AtLowerBand, <<43, 2>>, <<36, 2>>}

\* a check that any VWAP data passes
priceImprovedAlways(side, price, lastEntry, vwapData) ==
  IF vwapData # <<>> THEN TRUE
  ELSE IF side = "Buy" THEN price < lastEntry ELSE price > lastEntry

\* 274-298: the price is at or beyond the VWAP band of the position's side,
\* or, without VWAP data, better than the last trigger price
priceImproved(side, price, lastEntry, vwapData) ==
  IF vwapData # <<>>
    THEN LET lowerBand == vwapData[1] - vwapData[2] * dcaVwapSdMultiplier
             upperBand == vwapData[1] + vwapData[2] * dcaVwapSdMultiplier
         IN IF side = "Buy" THEN price <= lowerBand ELSE price >= upperBand
    ELSE IF side = "Buy" THEN price < lastEntry ELSE price > lastEntry

\* DCA_SPLITS[nextLevel] is undefined past the last level: the quantity is
\* then not a number, here -1
DcaQty(totalBudget, nextLevel, price) ==
  IF nextLevel + 1 > Len(DCA_SPLITS) THEN -1 ELSE SplitQty(totalBudget, nextLevel, price)

DcaCheck(p, vwapData) ==
  /\ inv[p].pc = "vwap"
  /\ LET rec == inv[p]
         existingPos == heap[rec.ref]
         lastEntry == IF existingPos.lastEntryPrice # 0 THEN existingPos.lastEntryPrice
                      ELSE existingPos.entryPrice
         nextLevel == existingPos.dcaLevel + 1
         qty == DcaQty(existingPos.totalBudget, nextLevel, rec.price)
     IN
     IF ~priceImproved(existingPos.side, rec.price, lastEntry, vwapData) THEN
       /\ inv' = [inv EXCEPT ![p] = Outcome(rec, "SKIPPED", "DCA price not improved", 0)]
       /\ UNCHANGED pendingSymbols
     ELSE IF existingPos.totalBudget <= 0 THEN
       \* pendingSymbols.add(symbol); try { return } finally { pendingSymbols.delete(symbol) }
       /\ inv' = [inv EXCEPT ![p] = Outcome(rec, "SKIPPED", "DCA: No budget info", 0)]
       /\ pendingSymbols' = pendingSymbols \ {rec.symbol}
     ELSE IF qty # -1 /\ qty < MinQty THEN
       /\ inv' = [inv EXCEPT ![p] = Outcome(rec, "SKIPPED", "DCA: Qty below minimum", 0)]
       /\ pendingSymbols' = pendingSymbols \ {rec.symbol}
     ELSE
       /\ inv' = [inv EXCEPT ![p] = [rec EXCEPT !.pc = "order", !.side = existingPos.side,
                                                !.nextLevel = nextLevel, !.qty = qty,
                                                !.totalBudget = existingPos.totalBudget]]
       /\ pendingSymbols' = pendingSymbols \cup {rec.symbol}
  /\ UNCHANGED <<monitorVars, storeVars, maxPositions, entryOrderType, initialBalance, activePositions, heap,
                 nEvents, remote, book, now>>

\* the promise of executeTrade settles; its slot is free for a later event
Return(p) ==
  /\ inv[p].pc = "done"
  /\ inv' = [inv EXCEPT ![p] = Idle]
  /\ UNCHANGED <<monitorVars, storeVars, maxPositions, entryOrderType, initialBalance, activePositions, heap,
                 pendingSymbols, nEvents, remote, book, now>>

(***************************************************************************)
(* The venue closes a position (a stop, a target or the trailing stop is   *)
(* hit) and lists the settlement in its closed-PnL records.                *)
(***************************************************************************)
ExitPrices(avgPrice) == {avgPrice + 2}
FillPrices(price) == {price, price + 1}     \* what a market order is filled at
ClosedPnls == {0, 2}

VenueClose(s, exitPrice, pnl) ==
  /\ remote[s].size > 0
  /\ Len(closedPnl) < MaxClosed
  /\ closedPnl' = <<[orderId |-> Len(closedPnl) + 1, symbol |-> s, side |-> remote[s].side,
                     avgEntryPrice |-> remote[s].avgPrice, avgExitPrice |-> exitPrice,
                     qty |-> remote[s].size, closedPnl |-> pnl, createdTime |-> now]>>
                   \o closedPnl
  /\ remote' = [remote EXCEPT ![s] = NoRemote]
  /\ UNCHANGED <<storeVars, maxPositions, entryOrderType, initialBalance, activePositions, heap,
                 pendingSymbols, inv, nEvents, book, now, tick, match, sweep,
                 recentlyClosedSymbols, pnlHistory, usedCloseOrderIds, resetTimestamp,
                 restores>>

\* time passes
AdvanceTime ==
  /\ now < MaxTime
  /\ now' = now + 1
  /\ UNCHANGED <<storeVars, maxPositions, entryOrderType, initialBalance, activePositions, heap,
                 pendingSymbols, inv, nEvents, remote, book, monitorVars>>

(***************************************************************************)
(* ensureProtectionOnPosition (monitor.js 203-301)                         *)
(***************************************************************************)
NoProtection == [stage |-> "none", symbol |-> "", ref |-> 0, side |-> "", entryPrice |-> 0,
                 qty |-> 0, slPrice |-> 0, trailingStop |-> 0, trailActivePrice |-> 0,
                 resultSl |-> 0, resultTrail |-> 0, resultActive |-> 0]

\* 218-265: what it will ask the venue for, from the ATR or the risk budget;
\* ok is FALSE where it returns null before any request
ProtectionPlan(side, entryPrice, qty, atrValue, ledgerSize) ==
  LET slOffset == IF atrValue > 0
                    THEN SlOffsetClamp(Rat(atrValue * slAtrMultiplier, 1), entryPrice)
                    ELSE RiskSlOffset(initialBalance, Max(1, ledgerSize), qty, entryPrice)
      rounded == roundPrice(Rat(atrValue * trailingAtrMultiplierX10, 10))
      trailingStop == IF atrValue > 0 THEN (IF rounded = 0 THEN TickSize ELSE rounded) ELSE 0
  IN [ok |-> atrValue > 0 \/ initialBalance > 0,
      slPrice |-> StopPrice(side, entryPrice, slOffset),
      trailingStop |-> trailingStop,
      trailActivePrice |-> IF trailingStop # 0
                             THEN TrailActive(side, entryPrice, trailingStop) ELSE 0]

\* the position object after the caller has taken over what was confirmed
\* (460-464, 505-509); nothing is taken over unless the stop was confirmed
WithProtection(pos, prot) ==
  IF prot.resultSl = 0 THEN pos
  ELSE [pos EXCEPT !.slPrice = prot.resultSl,
                   !.trailingStop = IF prot.resultTrail # 0 THEN prot.resultTrail ELSE @,
                   !.trailActivePrice = IF prot.resultActive # 0 THEN prot.resultActive ELSE @]

(***************************************************************************)
(* syncPositions (monitor.js 396-566).  A run is a record: its snapshot of *)
(* the venue, where its two loops stand, the closures it has collected and *)
(* the protection call it is waiting in.  The loops are written as         *)
(* functions of the world w they find (Ledger, objects, close guard,       *)
(* re-sent orders, the run itself) to the world at their next await.       *)
(***************************************************************************)
SymbolOrder == <<"s1", "s2">>      \* the order in which the venue lists positions

IdleTick == [pc |-> "idle", snap |-> [s \in Symbols |-> NoRemote], phase |-> "",
             at |-> 0, cursor |-> 0, closedEntries |-> {}, slMissing |-> FALSE,
             trailMissing |-> FALSE, prot |-> NoProtection]

\* an adopted position that is given the budget estimate of a loaded one
DetectedWithBudget(s, p) ==
  [symbol |-> s, side |-> p.side, entryPrice |-> p.avgPrice, qty |-> p.size,
   tpPrice |-> p.takeProfit, slPrice |-> p.stopLoss,
   openTime |-> IF p.createdTime # 0 THEN p.createdTime ELSE now,
   trailingStop |-> p.trailingStop,
   trailActivePrice |-> IF p.trailingStop # 0
                          THEN TrailActive(p.side, p.avgPrice, p.trailingStop) ELSE 0,
   dcaLevel |-> 0, totalBudget |-> (p.size * p.avgPrice * 100) \div DCA_SPLITS[1],
   lastEntryPrice |-> p.avgPrice, origin |-> "detected", orders |-> <<0, 0, 0, 0>>]


\* 416-447: the position object made for a venue position nobody tracks
Detected(s, p) ==
  [symbol |-> s, side |-> p.side, entryPrice |-> p.avgPrice, qty |-> p.size,
   tpPrice |-> p.takeProfit, slPrice |-> p.stopLoss,
   openTime |-> IF p.createdTime # 0 THEN p.createdTime ELSE now,
   trailingStop |-> p.trailingStop,
   trailActivePrice |-> IF p.trailingStop # 0
                          THEN TrailActive(p.side, p.avgPrice, p.trailingStop) ELSE 0,
   dcaLevel |-> 0, totalBudget |-> 0, lastEntryPrice |-> p.avgPrice,
   origin |-> "detected", orders |-> <<0, 0, 0, 0>>]

\* the call of ensureProtectionOnPosition up to its await getATR
Protect(tk, phase, s, ref, side, entryPrice, qty) ==
  [tk EXCEPT !.pc = "protect", !.phase = phase,
             !.prot = [NoProtection EXCEPT !.stage = "atr", !.symbol = s, !.ref = ref,
                                           !.side = side, !.entryPrice = entryPrice,
                                           !.qty = qty]]

\* a health check that sends nothing
RestoreNothing(w, ref, slMissing, trailMissing) == w

\* 512-552: the protective orders the health check sends again, unawaited:
\* the stop first, the trailing stop once the stop was answered
Restore(w, ref, slMissing, trailMissing) ==
  LET tracked == w.objects[ref]
  IN IF ~(slMissing \/ trailMissing) THEN w
     ELSE [w EXCEPT !.restores = @ \cup
             {[symbol |-> tracked.symbol,
               stopLoss |-> IF slMissing THEN tracked.slPrice ELSE 0,
               trailingStop |-> IF trailMissing THEN tracked.trailingStop ELSE 0,
               activePrice |-> IF trailMissing THEN tracked.trailActivePrice ELSE 0]}]

\* the Ledger entry after the one at cursor, in the Map's insertion order (0: none)
NextTracked(ledger, objects, cursor) ==
  LET rest == {i \in 1..Len(objects) : i > cursor /\ ledger[objects[i].symbol] = i}
  IN IF rest = {} THEN 0 ELSE CHOOSE i \in rest : \A j \in rest : i <= j

\* a run without the grace period
InGraceNever(openTime, t) == FALSE

\* 473-475: ageMs = Date.now() - (tracked.openTime || 0); ageMs < 15000
InGrace(openTime, t) == (t - openTime) * TimeUnitMs < GraceMs

RECURSIVE RunTrack(_)
\* 471-553: the loop over the Ledger from the entry after tk.cursor
RunTrack(w) ==
  LET ref == NextTracked(w.ledger, w.objects, w.tk.cursor)
      tracked == w.objects[ref]
      symbol == tracked.symbol
      bybitPos == w.tk.snap[symbol]
      on == [w EXCEPT !.tk.cursor = ref]
      slMissing == bybitPos.stopLoss = 0 /\ tracked.slPrice # 0
      trailMissing == bybitPos.trailingStop = 0 /\ tracked.trailingStop # 0
      nakedSL == bybitPos.stopLoss = 0 /\ tracked.slPrice = 0
      nakedTrail == bybitPos.trailingStop = 0 /\ tracked.trailingStop = 0
  IN
  IF ref = 0 THEN [w EXCEPT !.tk.pc = "finished"]
  ELSE IF bybitPos.size = 0 THEN
    IF InGrace(tracked.openTime, now) THEN RunTrack(on)
    ELSE IF /\ w.recent[symbol] # 0
            /\ (now - w.recent[symbol]) * TimeUnitMs < DedupMs
      THEN RunTrack([on EXCEPT !.ledger[symbol] = 0])
    ELSE RunTrack([on EXCEPT !.recent[symbol] = now,
                             !.tk.closedEntries = @ \cup {ref}])
  ELSE IF nakedSL \/ nakedTrail THEN
    [on EXCEPT !.tk = [Protect(@, "track", symbol, ref, tracked.side,
                               tracked.entryPrice, tracked.qty)
                         EXCEPT !.slMissing = slMissing, !.trailMissing = trailMissing]]
  ELSE RunTrack(Restore(on, ref, slMissing, trailMissing))

RECURSIVE RunAdopt(_, _)
\* 412-466: the loop over the snapshot from its i-th symbol, then the Ledger loop
RunAdopt(w, i) ==
  IF i > Len(SymbolOrder) THEN RunTrack([w EXCEPT !.tk.phase = "track", !.tk.cursor = 0])
  ELSE
    LET symbol == SymbolOrder[i]
        p == w.tk.snap[symbol]
        position == Detected(symbol, p)
        ref == Len(w.objects) + 1
        adopted == [w EXCEPT !.objects = Append(@, position), !.ledger[symbol] = ref]
    IN IF p.size = 0 \/ w.ledger[symbol] # 0 \/ symbol \in pendingSymbols
         THEN RunAdopt(w, i + 1)
       ELSE IF position.slPrice = 0 \/ position.trailingStop = 0
         THEN [adopted EXCEPT !.tk = [Protect(@, "adopt", symbol, ref, p.side,
                                              p.avgPrice, p.size)
                                        EXCEPT !.at = i]]
       ELSE RunAdopt(adopted, i + 1)

\* the run goes on after ensureProtectionOnPosition has returned
Resume(w) ==
  LET tk == w.tk
      ref == tk.prot.ref
      taken == [w EXCEPT !.objects[ref] = WithProtection(@, tk.prot),
                         !.tk.pc = "run", !.tk.prot = NoProtection]
  IN IF tk.phase = "adopt" THEN RunAdopt(taken, tk.at + 1)
     ELSE RunTrack(Restore([taken EXCEPT !.tk.slMissing = FALSE, !.tk.trailMissing = FALSE],
                           ref, tk.slMissing, tk.trailMissing))

IdleMatch == [pc |-> "idle", symbol |-> "", ref |-> 0, attempt |-> 0, entryOrderId |-> FALSE,
              entryPrice |-> 0, qty |-> 0, side |-> "", openTime |-> 0, closeOrderId |-> 0,
              avgEntryPrice |-> 0, avgExitPrice |-> 0, bybitClosedPnl |-> 0]

FreeMatches(ms) == {m \in DOMAIN ms : ms[m].pc = "idle"}

RECURSIVE Spawn(_, _, _)
\* 558-559: closedEntries.map calls fetchBybitCloseData for every collected
\* closure in turn; each call reads the arguments from the tracked object and
\* runs to its first await getClosedPnl
Spawn(ms, objects, refs) ==
  IF refs = {} THEN ms
  ELSE LET ref == CHOOSE r \in refs : \A q \in refs : r <= q
           m == CHOOSE f \in FreeMatches(ms) : \A g \in FreeMatches(ms) : f <= g
           tracked == objects[ref]
       IN Spawn([ms EXCEPT ![m] = [IdleMatch EXCEPT !.pc = "list", !.ref = ref,
                                     !.symbol = tracked.symbol,
                                     !.entryOrderId = tracked.origin = "engine",
                                     !.entryPrice = tracked.entryPrice,
                                     !.qty = tracked.qty, !.side = tracked.side,
                                     !.openTime = tracked.openTime]],
                objects, refs \ {ref})

\* what a run leaves behind at its next await, or at its end
Commit(k, w) ==
  /\ Len(w.objects) <= MaxObj
  /\ activePositions' = w.ledger
  /\ heap' = w.objects
  /\ recentlyClosedSymbols' = w.recent
  /\ restores' = w.restores
  /\ tick' = [tick EXCEPT ![k] =
                IF w.tk.pc # "finished" THEN w.tk
                ELSE IF w.tk.closedEntries = {} THEN IdleTick
                ELSE [IdleTick EXCEPT !.pc = "wait", !.closedEntries = w.tk.closedEntries]]

World(tk) == [ledger |-> activePositions, objects |-> heap, recent |-> recentlyClosedSymbols,
              restores |-> restores, tk |-> tk]

\* 745-747: setInterval fires and the run asks the venue for its positions
TickStart(k) ==
  /\ tick[k].pc = "idle"
  /\ \A j \in DOMAIN tick : j < k => tick[j].pc # "idle"
  /\ tick' = [tick EXCEPT ![k].pc = "snapshot"]
  /\ UNCHANGED <<storeVars, maxPositions, entryOrderType, initialBalance, activePositions, heap,
                 pendingSymbols, inv, nEvents, remote, book, now, match, sweep,
                 recentlyClosedSymbols, pnlHistory, usedCloseOrderIds, resetTimestamp,
                 closedPnl, restores>>

\* a run that takes a failed snapshot request for an empty list of positions
TickSnapshotAnyway(k, ok) ==
  /\ tick[k].pc = "snapshot"
  /\ Commit(k, RunAdopt(World([IdleTick EXCEPT
                                 !.pc = "run",
                                 !.snap = IF ok THEN remote
                                          ELSE [s \in Symbols |-> NoRemote],
                                 !.phase = "adopt"]), 1))
  /\ UNCHANGED <<storeVars, maxPositions, entryOrderType, initialBalance, pendingSymbols, inv, nEvents,
                 remote, book, now, match, sweep, pnlHistory, usedCloseOrderIds, resetTimestamp,
                 closedPnl>>


\* 400-408: the snapshot arrives (or the request fails and the run ends)
TickSnapshot(k, ok) ==
  /\ tick[k].pc = "snapshot"
  /\ IF ok
       THEN Commit(k, RunAdopt(World([IdleTick EXCEPT !.pc = "run", !.snap = remote,
                                                      !.phase = "adopt"]), 1))
       ELSE /\ tick' = [tick EXCEPT ![k] = IdleTick]
            /\ UNCHANGED <<activePositions, heap, recentlyClosedSymbols, restores>>
  /\ UNCHANGED <<storeVars, maxPositions, entryOrderType, initialBalance, pendingSymbols, inv, nEvents,
                 remote, book, now, match, sweep, pnlHistory, usedCloseOrderIds, resetTimestamp,
                 closedPnl>>

\* 210-267: await getATR returned
ProtectAtr(k, atrValue) ==
  /\ tick[k].pc = "protect"
  /\ tick[k].prot.stage = "atr"
  /\ LET prot == tick[k].prot
         plan == ProtectionPlan(prot.side, prot.entryPrice, prot.qty, atrValue,
                                Cardinality(ActiveSymbols))
     IN IF plan.ok
          THEN /\ tick' = [tick EXCEPT ![k].prot =
                             [prot EXCEPT !.stage = "sl", !.slPrice = plan.slPrice,
                                          !.trailingStop = plan.trailingStop,
                                          !.trailActivePrice = plan.trailActivePrice]]
               /\ UNCHANGED <<activePositions, heap, recentlyClosedSymbols, restores>>
          ELSE Commit(k, Resume(World(tick[k])))
  /\ UNCHANGED <<storeVars, maxPositions, entryOrderType, initialBalance, pendingSymbols, inv, nEvents,
                 remote, book, now, match, sweep, pnlHistory, usedCloseOrderIds, resetTimestamp,
                 closedPnl>>

\* 271-282: await setTradingStop(symbol, {stopLoss}) returned
ProtectSL(k, res) ==
  /\ tick[k].pc = "protect"
  /\ tick[k].prot.stage = "sl"
  /\ res \in StopResults(tick[k].prot.symbol)
  /\ LET prot == [tick[k].prot EXCEPT !.resultSl = IF res = "ok" THEN tick[k].prot.slPrice
                                                   ELSE 0]
     IN /\ remote' = IF res = "ok"
                       THEN [remote EXCEPT ![prot.symbol] = VenueAfterStop(@, prot.slPrice, 0, 0)]
                       ELSE remote
        /\ IF prot.trailingStop # 0 /\ prot.trailActivePrice # 0
             THEN /\ tick' = [tick EXCEPT ![k].prot = [prot EXCEPT !.stage = "trail"]]
                  /\ UNCHANGED <<activePositions, heap, recentlyClosedSymbols, restores>>
             ELSE Commit(k, Resume(World([tick[k] EXCEPT !.prot = prot])))
  /\ UNCHANGED <<storeVars, maxPositions, entryOrderType, initialBalance, pendingSymbols, inv, nEvents,
                 book, now, match, sweep, pnlHistory, usedCloseOrderIds, resetTimestamp,
                 closedPnl>>

\* 284-300: await setTradingStop(symbol, {trailingStop, activePrice}) returned
ProtectTrail(k, res) ==
  /\ tick[k].pc = "protect"
  /\ tick[k].prot.stage = "trail"
  /\ res \in StopResults(tick[k].prot.symbol)
  /\ LET prot == IF res = "ok"
                   THEN [tick[k].prot EXCEPT !.resultTrail = tick[k].prot.trailingStop,
                                             !.resultActive = tick[k].prot.trailActivePrice]
                   ELSE tick[k].prot
     IN /\ remote' = IF res = "ok"
                       THEN [remote EXCEPT ![prot.symbol] =
                               VenueAfterStop(@, 0, 0, prot.trailingStop)]
                       ELSE remote
        /\ Commit(k, Resume(World([tick[k] EXCEPT !.prot = prot])))
  /\ UNCHANGED <<storeVars, maxPositions, entryOrderType, initialBalance, pendingSymbols, inv, nEvents,
                 book, now, match, sweep, pnlHistory, usedCloseOrderIds, resetTimestamp,
                 closedPnl>>

\* the venue answers a protective order the health check re-sent
VenueRestore(r, res) ==
  /\ r \in restores
  /\ res \in StopResults(r.symbol)
  /\ remote' = IF res # "ok" THEN remote
               ELSE IF r.stopLoss # 0
                 THEN [remote EXCEPT ![r.symbol] = VenueAfterStop(@, r.stopLoss, 0, 0)]
               ELSE [remote EXCEPT ![r.symbol] = VenueAfterStop(@, 0, 0, r.trailingStop)]
  /\ restores' = IF r.stopLoss # 0 /\ r.trailingStop # 0 /\ res # "thrown"
                   THEN (restores \ {r}) \cup {[r EXCEPT !.stopLoss = 0]}
                   ELSE restores \ {r}
  /\ UNCHANGED <<storeVars, maxPositions, entryOrderType, initialBalance, activePositions, heap,
                 pendingSymbols, inv, nEvents, book, now, tick, match, sweep,
                 recentlyClosedSymbols, pnlHistory, usedCloseOrderIds, resetTimestamp,
                 closedPnl>>

\* 556-559: the shared two-second wait is over; the settlement matches of the
\* run start together
CloseWait(k) ==
  /\ tick[k].pc = "wait"
  /\ Cardinality(tick[k].closedEntries) <= Cardinality(FreeMatches(match))
  /\ match' = Spawn(match, heap, tick[k].closedEntries)
  /\ tick' = [tick EXCEPT ![k] = IdleTick]
  /\ UNCHANGED <<storeVars, maxPositions, entryOrderType, initialBalance, activePositions, heap,
                 pendingSymbols, inv, nEvents, remote, book, now, sweep,
                 recentlyClosedSymbols, pnlHistory, usedCloseOrderIds, resetTimestamp,
                 closedPnl, restores>>

(***************************************************************************)
(* fetchBybitCloseData and recordClose (monitor.js 17-191, 568-604)        *)
(***************************************************************************)
maxRetries == 6
ExecFees == {0}        \* the execution fees the venue reports for an order

\* 62-69: price within 0.5 %, quantity within 1 % (no quantity: difference 0)
Tier1(rec, trackedEntryPrice, trackedQty) ==
  /\ trackedEntryPrice > 0 /\ rec.avgEntryPrice > 0
  /\ 1000 * Abs(rec.avgEntryPrice - trackedEntryPrice) < 5 * trackedEntryPrice
  /\ (trackedQty > 0 /\ rec.qty > 0) => 100 * Abs(rec.qty - trackedQty) < trackedQty

\* 78-86: price within 5 %, quantity within 20 % (no quantity: difference 1)
Tier2(rec, trackedEntryPrice, trackedQty) ==
  /\ trackedEntryPrice > 0 /\ rec.avgEntryPrice > 0
  /\ 100 * Abs(rec.avgEntryPrice - trackedEntryPrice) < 5 * trackedEntryPrice
  /\ trackedQty > 0 /\ rec.qty > 0
  /\ 10 * Abs(rec.qty - trackedQty) < 2 * trackedQty

\* a match that takes the newest candidate
newestCandidate(candidates, trackedEntryPrice, trackedQty, trackedSide) == Head(candidates)

\* 55-105: the first candidate of the best tier
BestMatch(candidates, trackedEntryPrice, trackedQty, trackedSide) ==
  LET T1(rec) == Tier1(rec, trackedEntryPrice, trackedQty)
      T2(rec) == Tier2(rec, trackedEntryPrice, trackedQty)
      T3(rec) == trackedSide # "" /\ rec.side = trackedSide
      t1 == SelectSeq(candidates, T1)
      t2 == SelectSeq(candidates, T2)
      t3 == SelectSeq(candidates, T3)
  IN IF t1 # <<>> THEN Head(t1)
     ELSE IF t2 # <<>> THEN Head(t2)
     ELSE IF t3 # <<>> THEN Head(t3)
     ELSE Head(candidates)

\* a filter that keeps the time test on every attempt
CandidatesNeverRelaxed(list, used, symbol, openTime, attempt) ==
  LET Keep(rec) == /\ rec.symbol = symbol
                   /\ rec.orderId \notin used
                   /\ ~(openTime > 0 /\ rec.createdTime < openTime)
  IN SelectSeq(list, Keep)


\* an attempt that takes every record of the symbol for a candidate
CandidatesUnfiltered(list, used, symbol, openTime, attempt) ==
  LET Keep(rec) == rec.symbol = symbol
  IN SelectSeq(list, Keep)

\* 47-51: the venue's records for the symbol that are not consumed and, on
\* the early attempts, not older than the position
Candidates(list, used, symbol, openTime, attempt) ==
  LET relaxTimeFilter == attempt >= maxRetries - 2
      Keep(rec) == /\ rec.symbol = symbol
                   /\ rec.orderId \notin used
                   /\ ~(~relaxTimeFilter /\ openTime > 0 /\ rec.createdTime < openTime)
  IN SelectSeq(list, Keep)

\* a PnL calculated from the prices whatever they are
calculatedPnl(data, fee) ==
  LET entryPrice == IF data.entryPrice # 0 THEN data.entryPrice ELSE data.avgEntryPrice
      exitPrice == data.avgExitPrice
  IN (IF data.side = "Buy" THEN (exitPrice - entryPrice) * data.qty
      ELSE (entryPrice - exitPrice) * data.qty) - fee

\* 161-186: the PnL of the close: the venue's closedPnl, or calculated from
\* the prices when both are known, or 0
closePnl(data, fee) ==
  LET entryPrice == IF data.entryPrice # 0 THEN data.entryPrice ELSE data.avgEntryPrice
      exitPrice == data.avgExitPrice
      grossPnl == IF data.side = "Buy" THEN (exitPrice - entryPrice) * data.qty
                  ELSE (entryPrice - exitPrice) * data.qty
  IN IF data.bybitClosedPnl # 0 THEN data.bybitClosedPnl
     ELSE IF entryPrice > 0 /\ exitPrice > 0 /\ data.qty > 0 /\ data.side # ""
       THEN grossPnl - fee
     ELSE 0

\* 568-599: the ClosedTrade at the head of the history, and the symbol's entry
\* out of the Ledger.  ref is the position object the record was made for (no
\* field of the source).
recordClose(m, data, fee) ==
  LET tracked == heap[data.ref]
      exitPrice == data.avgExitPrice
      pnl == closePnl(data, fee)
  IN /\ Len(pnlHistory) < MaxHistory
     /\ pnlHistory' = <<[symbol |-> data.symbol, closeOrderId |-> data.closeOrderId,
                         side |-> tracked.side, entryPrice |-> tracked.entryPrice,
                         exitPrice |-> exitPrice, qty |-> tracked.qty, pnl |-> pnl,
                         exitType |-> "TP/SL/TRAIL", openTime |-> tracked.openTime,
                         closedAt |-> now, ref |-> data.ref]>> \o pnlHistory
     /\ activePositions' = [activePositions EXCEPT ![data.symbol] = 0]
     /\ match' = [match EXCEPT ![m] = IdleMatch]

\* 34-125: await getClosedPnl(symbol, 50) returned (ok: retCode 0)
MatchList(m, ok) ==
  /\ match[m].pc = "list"
  /\ LET rec == match[m]
         candidates == Candidates(closedPnl, usedCloseOrderIds, rec.symbol, rec.openTime,
                                  rec.attempt)
         bestMatch == BestMatch(candidates, rec.entryPrice, rec.qty, rec.side)
     IN IF ok /\ candidates # <<>> THEN
          /\ match' = [match EXCEPT ![m] =
                         [rec EXCEPT !.pc = "fees", !.closeOrderId = bestMatch.orderId,
                                     !.avgEntryPrice = bestMatch.avgEntryPrice,
                                     !.avgExitPrice = bestMatch.avgExitPrice,
                                     !.bybitClosedPnl = bestMatch.closedPnl]]
          /\ usedCloseOrderIds' = usedCloseOrderIds \cup {bestMatch.orderId}
          /\ UNCHANGED <<pnlHistory, activePositions>>
        ELSE IF rec.attempt + 1 < maxRetries THEN
          /\ match' = [match EXCEPT ![m].attempt = @ + 1]
          /\ UNCHANGED <<usedCloseOrderIds, pnlHistory, activePositions>>
        ELSE IF rec.entryOrderId THEN
          /\ match' = [match EXCEPT ![m].pc = "fees"]
          /\ UNCHANGED <<usedCloseOrderIds, pnlHistory, activePositions>>
        ELSE
          /\ recordClose(m, rec, 0)
          /\ UNCHANGED usedCloseOrderIds
  /\ UNCHANGED <<storeVars, maxPositions, entryOrderType, initialBalance, heap, pendingSymbols, inv,
                 nEvents, remote, book, now, tick, sweep, recentlyClosedSymbols,
                 resetTimestamp, closedPnl, restores>>

\* 127-191 and 560: the execution lists came back, the close is recorded
MatchFees(m, fee) ==
  /\ match[m].pc = "fees"
  /\ recordClose(m, match[m], fee)
  /\ UNCHANGED <<storeVars, maxPositions, entryOrderType, initialBalance, heap, pendingSymbols, inv,
                 nEvents, remote, book, now, tick, sweep, recentlyClosedSymbols,
                 usedCloseOrderIds, resetTimestamp, closedPnl, restores>>

(***************************************************************************)
(* reconcilePnl (monitor.js 611-742)                                       *)
(***************************************************************************)
BucketMs == 120000

IdleSweep == [pc |-> "idle", bybitRecords |-> <<>>, at |-> 0, knownByTimeSymbol |-> {}]

\* Math.floor(t / 120000)
Bucket(t) == (t * TimeUnitMs) \div BucketMs

\* 625: a record whose close was never matched
Unresolved(p) == p.pnl = 0 /\ p.exitPrice = 0

\* 623-632: symbol and 120 s bucket (and its neighbours) of the resolved records
KnownByTimeSymbol(history) ==
  {<<history[i].symbol, Bucket(history[i].closedAt) + d>> :
     i \in {j \in 1..Len(history) : ~Unresolved(history[j]) /\ history[j].closedAt # 0},
     d \in {-1, 0, 1}}

\* the filters of 642-646 without the consumed set
SkippedUnlessConsumed(sw, rec, used) ==
  \/ resetTimestamp > 0 /\ rec.createdTime < resetTimestamp
  \/ <<rec.symbol, Bucket(rec.createdTime)>> \in sw.knownByTimeSymbol

\* 642-646: the record is skipped
Skipped(sw, rec, used) ==
  \/ resetTimestamp > 0 /\ rec.createdTime < resetTimestamp
  \/ rec.orderId \in used
  \/ <<rec.symbol, Bucket(rec.createdTime)>> \in sw.knownByTimeSymbol

\* 681-687: the unresolved record the venue's record belongs to (0: none)
ExistingIdx(history, rec) ==
  LET Same(p) ==
        /\ p.symbol = rec.symbol
        /\ Unresolved(p)
        /\ \/ /\ rec.avgEntryPrice > 0 /\ p.entryPrice > 0
              /\ 100 * Abs(p.entryPrice - rec.avgEntryPrice) < 5 * rec.avgEntryPrice
           \/ /\ rec.qty > 0 /\ p.qty > 0
              /\ 10 * Abs(p.qty - rec.qty) < 3 * rec.qty
      found == {i \in 1..Len(history) : Same(history[i])}
  IN IF found = {} THEN 0 ELSE CHOOSE i \in found : \A j \in found : i <= j

RECURSIVE SortByClosedAt(_)
\* 734: pnlHistory.sort((a, b) => b.closedAt - a.closedAt), a stable sort
SortByClosedAt(history) ==
  IF history = <<>> THEN <<>>
  ELSE LET best == CHOOSE i \in 1..Len(history) :
                     /\ \A j \in 1..Len(history) : history[j].closedAt <= history[i].closedAt
                     /\ \A j \in 1..(i - 1) : history[j].closedAt < history[i].closedAt
           others == [j \in 1..(Len(history) - 1) |->
                        IF j < best THEN history[j] ELSE history[j + 1]]
       IN <<history[best]>> \o SortByClosedAt(others)

\* 635-646: the loop from the record after sw.at to the next record it
\* fetches the executions for (at = 0: the loop is over)
SweepNext(sw, used) ==
  LET todo == {i \in 1..Len(sw.bybitRecords) :
                 i > sw.at /\ ~Skipped(sw, sw.bybitRecords[i], used)}
  IN IF todo = {} THEN 0 ELSE CHOOSE i \in todo : \A j \in todo : i <= j

\* 750-752: the two-minute timer (or the startup, index.js 86) calls reconcilePnl
SweepStart(j) ==
  /\ sweep[j].pc = "idle"
  /\ \A i \in DOMAIN sweep : i < j => sweep[i].pc # "idle"
  /\ sweep' = [sweep EXCEPT ![j].pc = "list"]
  /\ UNCHANGED <<storeVars, maxPositions, entryOrderType, initialBalance, activePositions, heap,
                 pendingSymbols, inv, nEvents, remote, book, now, tick, match,
                 recentlyClosedSymbols, pnlHistory, usedCloseOrderIds, resetTimestamp,
                 closedPnl, restores>>

\* 613-646: await getClosedPnl(null, 200) returned
SweepList(j, ok) ==
  /\ sweep[j].pc = "list"
  /\ LET sw == [sweep[j] EXCEPT !.bybitRecords = closedPnl,
                                !.knownByTimeSymbol = KnownByTimeSymbol(pnlHistory)]
         next == SweepNext(sw, usedCloseOrderIds)
     IN sweep' = [sweep EXCEPT ![j] =
                    IF ~ok \/ closedPnl = <<>> \/ next = 0 THEN IdleSweep
                    ELSE [sw EXCEPT !.pc = "exec", !.at = next]]
  /\ UNCHANGED <<storeVars, maxPositions, entryOrderType, initialBalance, activePositions, heap,
                 pendingSymbols, inv, nEvents, remote, book, now, tick, match,
                 recentlyClosedSymbols, pnlHistory, usedCloseOrderIds, resetTimestamp,
                 closedPnl, restores>>

\* 661-735: await getExecutionList returned; the record repairs an
\* unresolved ClosedTrade or is appended, its id is marked consumed, and the
\* loop runs on; the history is sorted when the loop is over
SweepExec(j) ==
  /\ sweep[j].pc = "exec"
  /\ LET sw == sweep[j]
         rec == sw.bybitRecords[sw.at]
         existingIdx == ExistingIdx(pnlHistory, rec)
         history ==
           IF existingIdx > 0
             THEN [pnlHistory EXCEPT ![existingIdx] =
                     [@ EXCEPT !.exitPrice = rec.avgExitPrice, !.pnl = rec.closedPnl,
                               !.closeOrderId = rec.orderId]]
             ELSE Append(pnlHistory,
                         [symbol |-> rec.symbol, closeOrderId |-> rec.orderId,
                          side |-> rec.side, entryPrice |-> rec.avgEntryPrice,
                          exitPrice |-> rec.avgExitPrice, qty |-> rec.qty,
                          pnl |-> rec.closedPnl, exitType |-> "RECONCILED",
                          openTime |-> rec.createdTime, closedAt |-> rec.createdTime,
                          ref |-> 0])
         used == usedCloseOrderIds \cup {rec.orderId}
         next == SweepNext(sw, used)
     IN /\ Len(history) <= MaxHistory
        /\ usedCloseOrderIds' = used
        /\ pnlHistory' = IF next = 0 THEN SortByClosedAt(history) ELSE history
        /\ sweep' = [sweep EXCEPT ![j] =
                       IF next = 0 THEN IdleSweep
                       ELSE [sw EXCEPT !.at = next]]
  /\ UNCHANGED <<storeVars, maxPositions, entryOrderType, initialBalance, activePositions, heap,
                 pendingSymbols, inv, nEvents, remote, book, now, tick, match,
                 recentlyClosedSymbols, resetTimestamp, closedPnl, restores>>

(***************************************************************************)
(* Startup (index.js 34-95)                                                *)
(***************************************************************************)
\* executor.js 169-233, loadExistingPositions: the position object made for
\* a position the venue holds at startup; the budget is estimated from its
\* size as if it were the first split
Existing(s, p) ==
  [Detected(s, p) EXCEPT !.totalBudget = (p.size * p.avgPrice * 100) \div DCA_SPLITS[1],
                         !.origin = "existing"]

\* the venue's positions at startup
Held(side, avgPrice, size, stopLoss, takeProfit, trailingStop) ==
  [NoRemote EXCEPT !.size = size, !.side = side, !.avgPrice = avgPrice,
                   !.stopLoss = stopLoss, !.takeProfit = takeProfit,
                   !.trailingStop = trailingStop, !.createdTime = 1]

(***************************************************************************)
(* Persistence (persistence.js 16-29).  A file is the sequence of the      *)
(* pieces written to it so far; snapshot v written out in full is FileLen  *)
(* pieces v.  writeFileSync truncates the file and writes the pieces one   *)
(* after the other, renameSync replaces the target in one step.  The       *)
(* process may die between any two of these steps.                         *)
(***************************************************************************)
Names == {"pnl_history.json", "total_pnl.json"}

\* a path that is the target itself
samePath(name) == <<name, "">>

\* filePath(name + '.tmp')
tmpPath(name) == <<name, ".tmp">>

\* filePath(name)
targetPath(name) == <<name, "">>

Paths == {targetPath(name) : name \in Names} \cup {tmpPath(name) : name \in Names}

NoFile == [exists |-> FALSE, data |-> <<>>]
File(data) == [exists |-> TRUE, data |-> data]

\* JSON.stringify(data) of snapshot v, in pieces
Contents(v) == [i \in 1..FileLen |-> v]

NoSave == [pc |-> "idle", name |-> "", data |-> 0, old |-> NoFile, calls |-> 0]

StoreIdle ==
  /\ files = [path \in Paths |-> NoFile]
  /\ save = NoSave

\* 20-24: saveJSON(name, data) up to the open of the temp file, which
\* truncates what a previous call may have left there
SaveStart(name) ==
  /\ save.pc = "idle"
  /\ save.calls < MaxSaves
  /\ save' = [pc |-> "write", name |-> name, data |-> save.calls + 1,
              old |-> files[targetPath(name)], calls |-> save.calls + 1]
  /\ files' = [files EXCEPT ![tmpPath(name)] = File(<<>>)]
  /\ UNCHANGED <<engineVars, monitorVars>>

\* 24: writeFileSync writes the next piece (ok), or throws into the catch of
\* 26-28, which leaves the temp file as it is
WritePiece(ok) ==
  /\ save.pc = "write"
  /\ IF ok
       THEN /\ files' = [files EXCEPT ![tmpPath(save.name)] = File(Append(@.data, save.data))]
            /\ save' = [save EXCEPT !.pc = IF Len(files'[tmpPath(save.name)].data) >= FileLen
                                             THEN "rename" ELSE "write"]
       ELSE /\ save' = [save EXCEPT !.pc = "idle"]
            /\ UNCHANGED files
  /\ UNCHANGED <<engineVars, monitorVars>>

\* the directory after rename(from, to)
Renamed(dir, from, to) ==
  IF from = to THEN dir ELSE [dir EXCEPT ![to] = dir[from], ![from] = NoFile]

\* 25: renameSync(tmp, target), or its exception caught at 26-28
Rename(ok) ==
  /\ save.pc = "rename"
  /\ files' = IF ok THEN Renamed(files, tmpPath(save.name), targetPath(save.name)) ELSE files
  /\ save' = [save EXCEPT !.pc = "idle"]
  /\ UNCHANGED <<engineVars, monitorVars>>

\* the process dies inside saveJSON
Crash ==
  /\ save.pc \in {"write", "rename"}
  /\ save' = [save EXCEPT !.pc = "down"]
  /\ UNCHANGED <<files, engineVars, monitorVars>>

\* the process is started again (startPersistence 49-53 reads the targets)
Restart ==
  /\ save.pc = "down"
  /\ save' = [NoSave EXCEPT !.calls = save.calls]
  /\ UNCHANGED <<files, engineVars, monitorVars>>

\* nothing in flight in the executor, no event seen
ExecutorIdle ==
  /\ pendingSymbols = {}
  /\ inv = [p \in Procs |-> Idle]
  /\ nEvents = 0
  /\ book = {}

\* nothing in flight in the monitor, hydratePnl found nothing on disk
MonitorIdle ==
  /\ tick = [k \in 1..NumTicks |-> IdleTick]
  /\ match = [m \in 1..NumMatches |-> IdleMatch]
  /\ sweep = [j \in 1..NumSweeps |-> IdleSweep]
  /\ recentlyClosedSymbols = [s \in Symbols |-> 0]
  /\ pnlHistory = <<>>
  /\ usedCloseOrderIds = {}
  /\ resetTimestamp = 0
  /\ closedPnl = <<>>
  /\ restores = {}

\* the venue holds nothing at startup
Flat ==
  /\ activePositions = [s \in Symbols |-> 0]
  /\ heap = <<>>
  /\ remote = [s \in Symbols |-> NoRemote]

\* the venue holds one position, on s1, which loadExistingPositions tracks
Loaded(p) ==
  /\ activePositions = [s \in Symbols |-> IF s = "s1" THEN 1 ELSE 0]
  /\ heap = <<Existing("s1", p)>>
  /\ remote = [s \in Symbols |-> IF s = "s1" THEN p ELSE NoRemote]

(***************************************************************************)
(* Specification Spec: the executor from an empty Ledger, events on two    *)
(* symbols, passive and market entries.                                    *)
(***************************************************************************)
Init ==
  /\ maxPositions \in 1..2
  /\ entryOrderType \in {"Market", "Limit"}
  /\ initialBalance \in Balances
  /\ now = 1
  /\ Flat /\ ExecutorIdle /\ StoreIdle /\ MonitorIdle

Items == [symbol : Symbols, side : Sides, price : EventPrices,
          pre : {"ok", "Unknown instrument"}]
Messages == {<<a>> : a \in Items} \cup {<<a, b>> : a \in Items, b \in Items}

Next ==
  \/ \E items \in Messages : nEvents + Len(items) <= MaxEvents /\ OnMessage(items)
  \/ \E p \in Procs, atrValue \in AtrValues : FreshPrepare(p, atrValue)
  \/ \E p \in Procs, ws \in {"notready", "ok", "rejected", "lost"}, rest \in RestResults :
       \E limitPrice \in {0, inv[p].price} :
         PlaceEntry(p, limitPrice, inv[p].price, ws, rest)
  \/ \E p \in Procs : VenueFillOrder(p)
  \/ \E o \in book : VenueFillStray(o)
  \/ \E p \in Procs, check \in {"status", "failed", "thrown"}, cancelled \in BOOLEAN :
       AwaitFill(p, check, cancelled)
  \/ \E p \in Procs, found \in BOOLEAN : FetchFill(p, found)
  \/ \E p \in Procs, res \in CallResults : SetSL(p, res)
  \/ \E p \in Procs, res \in CallResults : SetTrail(p, res)
  \/ \E p \in Procs, res \in CallResults : TightenStep(p, res)
  \/ \E p \in Procs, vwap \in VwapResults : DcaCheck(p, vwap)
  \/ \E p \in Procs : Return(p)

Spec == Init /\ [][Next]_vars

(***************************************************************************)
(* Specification SpecDca: events on the symbol of a position loaded at     *)
(* startup, market entries.                                                *)
(***************************************************************************)
InitDca ==
  /\ maxPositions = 2
  /\ entryOrderType = "Market"
  /\ initialBalance = 1000
  /\ now = 1
  /\ \E trailingStop \in {0, 4} : Loaded(Held("Buy", 40, 1, 36, 0, trailingStop))
  /\ ExecutorIdle /\ StoreIdle /\ MonitorIdle

DcaItems == [symbol : {"s1"}, side : {"Buy"}, price : EventPrices, pre : {"ok"}]

NextDca ==
  \/ \E a \in DcaItems : nEvents < MaxDcaEvents /\ OnMessage(<<a>>)
  \/ \E p \in Procs, vwap \in VwapResults : DcaCheck(p, vwap)
  \/ \E p \in Procs, ws \in {"ok", "rejected"} :
       PlaceEntry(p, 0, inv[p].price, ws, "ok")
  \/ \E p \in Procs, found \in BOOLEAN : FetchFill(p, found)
  \/ \E p \in Procs, res \in CallResults : SetSL(p, res)
  \/ \E p \in Procs, res \in CallResults : SetTrail(p, res)
  \/ \E p \in Procs : Return(p)

SpecDca == InitDca /\ [][NextDca]_vars

(***************************************************************************)
(* Specification SpecMon: the monitor and the backfill sweep over a        *)
(* position loaded at startup that the venue closes.                       *)
(***************************************************************************)
InitMon ==
  /\ maxPositions = 2
  /\ entryOrderType = "Market"
  /\ initialBalance = 1000
  /\ now = StartTime
  /\ Loaded(Held("Buy", 40, 1, 36, 0, 4))
  /\ ExecutorIdle /\ StoreIdle /\ MonitorIdle

NextMon ==
  \/ \E exitPrice \in ExitPrices(remote["s1"].avgPrice), pnl \in ClosedPnls :
       VenueClose("s1", exitPrice, pnl)
  \/ AdvanceTime
  \/ \E k \in 1..NumTicks : TickStart(k)
  \/ \E k \in 1..NumTicks, ok \in BOOLEAN : TickSnapshot(k, ok)
  \/ \E k \in 1..NumTicks : CloseWait(k)
  \/ \E m \in 1..NumMatches, ok \in BOOLEAN : MatchList(m, ok)
  \/ \E m \in 1..NumMatches, fee \in ExecFees : MatchFees(m, fee)
  \/ \E j \in 1..NumSweeps : SweepStart(j)
  \/ \E j \in 1..NumSweeps, ok \in BOOLEAN : SweepList(j, ok)
  \/ \E j \in 1..NumSweeps : SweepExec(j)

SpecMon == InitMon /\ [][NextMon]_vars

(***************************************************************************)
(* Specification SpecHeal: one fresh market entry and the monitor's        *)
(* protection healing of it.                                               *)
(***************************************************************************)
InitHeal ==
  /\ maxPositions = 1
  /\ entryOrderType = "Market"
  /\ initialBalance = 1000
  /\ now = 1
  /\ Flat /\ ExecutorIdle /\ StoreIdle /\ MonitorIdle

HealItems == [symbol : {"s1"}, side : Sides, price : EventPrices, pre : {"ok"}]

NextHeal ==
  \/ \E a \in HealItems : nEvents < MaxHealEvents /\ OnMessage(<<a>>)
  \/ \E p \in Procs, atrValue \in AtrValues : FreshPrepare(p, atrValue)
  \/ \E p \in Procs : \E fill \in FillPrices(inv[p].price) :
       PlaceEntry(p, 0, fill, "ok", "ok")
  \/ \E p \in Procs, found \in BOOLEAN : FetchFill(p, found)
  \/ \E p \in Procs, res \in CallResults : SetSL(p, res)
  \/ \E p \in Procs, res \in CallResults : SetTrail(p, res)
  \/ \E p \in Procs : Return(p)
  \/ \E k \in 1..NumTicks : TickStart(k)
  \/ \E k \in 1..NumTicks, ok \in BOOLEAN : TickSnapshot(k, ok)
  \/ \E k \in 1..NumTicks, atrValue \in AtrValues : ProtectAtr(k, atrValue)
  \/ \E k \in 1..NumTicks, res \in CallResults : ProtectSL(k, res)
  \/ \E k \in 1..NumTicks, res \in CallResults : ProtectTrail(k, res)
  \/ \E r \in restores, res \in CallResults : VenueRestore(r, res)

SpecHeal == InitHeal /\ [][NextHeal]_vars

(***************************************************************************)
(* Specification SpecNaked: after a restart the Ledger tracks a position   *)
(* that has neither a stop nor a trailing stop, at the venue or in the     *)
(* Ledger; the venue accepts every protective order.                       *)
(***************************************************************************)
InitNaked ==
  /\ maxPositions = 2
  /\ entryOrderType = "Market"
  /\ initialBalance = 1000
  /\ now = 1
  /\ \E side \in Sides, avgPrice \in FillPrices(40) :
       Loaded(Held(side, avgPrice, 1, 0, 0, 0))
  /\ ExecutorIdle /\ StoreIdle /\ MonitorIdle

NextNaked ==
  \/ \E k \in 1..NumTicks : TickStart(k)
  \/ \E k \in 1..NumTicks, ok \in BOOLEAN : TickSnapshot(k, ok)
  \/ \E k \in 1..NumTicks, atrValue \in AtrValues : ProtectAtr(k, atrValue)
  \/ \E k \in 1..NumTicks : ProtectSL(k, "ok")
  \/ \E k \in 1..NumTicks : ProtectTrail(k, "ok")

SpecNaked == InitNaked /\ [][NextNaked]_vars

(***************************************************************************)
(* Specification SpecWs: one fresh entry, passive or market, with every    *)
(* outcome of the low-latency and the standard submission channel.         *)
(***************************************************************************)
InitWs ==
  /\ maxPositions = 1
  /\ entryOrderType \in {"Market", "Limit"}
  /\ initialBalance = 1000
  /\ now = 1
  /\ Flat /\ ExecutorIdle /\ StoreIdle /\ MonitorIdle

NextWs ==
  \/ \E a \in HealItems : nEvents < MaxHealEvents /\ OnMessage(<<a>>)
  \/ \E p \in Procs, atrValue \in AtrValues : FreshPrepare(p, atrValue)
  \/ \E p \in Procs, ws \in WsResults, rest \in RestResults :
       \E limitPrice \in {0, inv[p].price} :
         PlaceEntry(p, limitPrice, inv[p].price, ws, rest)
  \/ \E p \in Procs : VenueFillOrder(p)
  \/ \E o \in book : VenueFillStray(o)
  \/ \E p \in Procs, check \in {"status", "failed", "thrown"}, cancelled \in BOOLEAN :
       AwaitFill(p, check, cancelled)
  \/ \E p \in Procs, found \in BOOLEAN : FetchFill(p, found)
  \/ \E p \in Procs, res \in CallResults : SetSL(p, res)
  \/ \E p \in Procs, res \in CallResults : SetTrail(p, res)
  \/ \E p \in Procs : Return(p)

SpecWs == InitWs /\ [][NextWs]_vars

(***************************************************************************)
(* Specification SpecAdopt: events on the symbol of a loaded position that *)
(* the venue closes while the monitor runs; every remote call succeeds.    *)
(***************************************************************************)
NextAdopt ==
  \/ \E exitPrice \in ExitPrices(remote["s1"].avgPrice) : VenueClose("s1", exitPrice, 2)
  \/ \E k \in 1..NumTicks : TickStart(k)
  \/ \E k \in 1..NumTicks : TickSnapshot(k, TRUE)
  \/ \E k \in 1..NumTicks : CloseWait(k)
  \/ \E m \in 1..NumMatches : MatchList(m, TRUE)
  \/ \E m \in 1..NumMatches, fee \in ExecFees : MatchFees(m, fee)
  \/ \E k \in 1..NumTicks : ProtectAtr(k, 2)
  \/ \E k \in 1..NumTicks : ProtectSL(k, "ok")
  \/ \E k \in 1..NumTicks : ProtectTrail(k, "ok")
  \/ \E a \in DcaItems : nEvents < MaxEvents /\ OnMessage(<<a>>)
  \/ \E p \in Procs : DcaCheck(p, AtLowerBand)
  \/ \E p \in Procs : FreshPrepare(p, 2)
  \/ \E p \in Procs : PlaceEntry(p, 0, inv[p].price, "ok", "ok")
  \/ \E p \in Procs : FetchFill(p, TRUE)
  \/ \E p \in Procs : SetSL(p, "ok")
  \/ \E p \in Procs : SetTrail(p, "ok")

SpecAdopt == InitMon /\ [][NextAdopt]_vars

(***************************************************************************)
(* Specification SpecHydrate: a restart with a PnL history on disk.  The   *)
(* venue still lists the settled close of the history, next to a close the *)
(* history does not know; the position loaded at startup may close.        *)
(***************************************************************************)
\* the settled ClosedTrade of the snapshot; its closedAt is the time it was
\* recorded, which may be long after the venue created the record
SavedRecord(closedAt) ==
  [symbol |-> "s1", closeOrderId |-> 1, side |-> "Buy", entryPrice |-> 40,
   exitPrice |-> 42, qty |-> 1, pnl |-> 2, exitType |-> "TP/SL/TRAIL", openTime |-> 1,
   closedAt |-> closedAt, ref |-> 0]

\* a ClosedTrade of the snapshot whose close was never matched
BrokenRecord ==
  [symbol |-> "s2", closeOrderId |-> 0, side |-> "Buy", entryPrice |-> 40,
   exitPrice |-> 0, qty |-> 1, pnl |-> 0, exitType |-> "TP/SL/TRAIL", openTime |-> 1,
   closedAt |-> 1, ref |-> 0]

\* a closed-PnL record of the venue
VenueRec(orderId, symbol, pnl) ==
  [orderId |-> orderId, symbol |-> symbol, side |-> "Buy", avgEntryPrice |-> 40,
   avgExitPrice |-> 42, qty |-> 1, closedPnl |-> pnl, createdTime |-> 1]

\* the consumed set without the ids of the snapshot
hydrateUnseeded(savedHistory) == {}

\* monitor.js 317-324: the consumed set hydratePnl seeds from the history
hydratePnl(savedHistory) ==
  {savedHistory[i].closeOrderId :
     i \in {j \in 1..Len(savedHistory) : savedHistory[j].closeOrderId # 0}}

InitHydrate ==
  /\ maxPositions = 2
  /\ entryOrderType = "Market"
  /\ initialBalance = 1000
  /\ now = RestartTime
  /\ \E closedAt \in {1, RestartTime}, broken \in BOOLEAN :
       pnlHistory = <<SavedRecord(closedAt)>> \o (IF broken THEN <<BrokenRecord>> ELSE <<>>)
  /\ usedCloseOrderIds = hydratePnl(pnlHistory)
  /\ resetTimestamp = 0
  /\ \E pnl \in ClosedPnls :
       closedPnl \in {<<VenueRec(1, "s1", 2)>>,
                      <<VenueRec(1, "s1", 2), VenueRec(2, "s2", pnl)>>,
                      <<VenueRec(2, "s2", pnl), VenueRec(1, "s1", 2)>>}
  /\ Loaded(Held("Buy", 40, 1, 36, 0, 4))
  /\ ExecutorIdle /\ StoreIdle
  /\ tick = [k \in 1..NumTicks |-> IdleTick]
  /\ match = [m \in 1..NumMatches |-> IdleMatch]
  /\ sweep = [j \in 1..NumSweeps |-> IdleSweep]
  /\ recentlyClosedSymbols = [s \in Symbols |-> 0]
  /\ restores = {}

NextHydrate ==
  \/ \E exitPrice \in ExitPrices(remote["s1"].avgPrice), pnl \in ClosedPnls :
       VenueClose("s1", exitPrice, pnl)
  \/ \E k \in 1..NumTicks : TickStart(k)
  \/ \E k \in 1..NumTicks : TickSnapshot(k, TRUE)
  \/ \E k \in 1..NumTicks : CloseWait(k)
  \/ \E m \in 1..NumMatches, ok \in BOOLEAN : MatchList(m, ok)
  \/ \E m \in 1..NumMatches, fee \in ExecFees : MatchFees(m, fee)
  \/ \E j \in 1..NumSweeps : SweepStart(j)
  \/ \E j \in 1..NumSweeps, ok \in BOOLEAN : SweepList(j, ok)
  \/ \E j \in 1..NumSweeps : SweepExec(j)

SpecHydrate == InitHydrate /\ [][NextHydrate]_vars

(***************************************************************************)
(* Specification SpecRepair: a restart with a history whose only record is *)
(* the unresolved close of an earlier position on s1; the venue lists that *)
(* close, or not yet, and holds a later position on s1, which is loaded    *)
(* and which the venue closes while the monitor and the sweeps run.        *)
(***************************************************************************)
InitRepair ==
  /\ maxPositions = 2
  /\ entryOrderType = "Market"
  /\ initialBalance = 1000
  /\ now = RestartTime
  /\ pnlHistory = <<[BrokenRecord EXCEPT !.symbol = "s1"]>>
  /\ usedCloseOrderIds = hydratePnl(pnlHistory)
  /\ resetTimestamp = 0
  /\ \E pnl \in ClosedPnls : closedPnl \in {<<>>, <<VenueRec(1, "s1", pnl)>>}
  /\ Loaded([Held("Buy", 40, 1, 36, 0, 4) EXCEPT !.createdTime = 2])
  /\ ExecutorIdle /\ StoreIdle
  /\ tick = [k \in 1..NumTicks |-> IdleTick]
  /\ match = [m \in 1..NumMatches |-> IdleMatch]
  /\ sweep = [j \in 1..NumSweeps |-> IdleSweep]
  /\ recentlyClosedSymbols = [s \in Symbols |-> 0]
  /\ restores = {}

SpecRepair == InitRepair /\ [][NextHydrate]_vars

(***************************************************************************)
(* Specification SpecSize: fresh market entries on a flat account, for     *)
(* events of either side at prices that give 2, 1 or no lots.              *)
(***************************************************************************)
InitSize ==
  /\ maxPositions = 2
  /\ entryOrderType = "Market"
  /\ initialBalance \in {400, 1000}
  /\ now = 1
  /\ Flat /\ ExecutorIdle /\ StoreIdle /\ MonitorIdle

SizeItems == [symbol : Symbols, side : Sides, price : SizePrices, pre : {"ok"}]

NextSize ==
  \/ \E a \in SizeItems : nEvents < MaxEvents /\ OnMessage(<<a>>)
  \/ \E p \in Procs : FreshPrepare(p, 2)
  \/ \E p \in Procs, ws \in {"ok", "rejected"} : PlaceEntry(p, 0, inv[p].price, ws, "ok")
  \/ \E p \in Procs : FetchFill(p, TRUE)
  \/ \E p \in Procs : SetSL(p, "ok")
  \/ \E p \in Procs : SetTrail(p, "ok")
  \/ \E p \in Procs : TightenStep(p, "ok")
  \/ \E p \in Procs : Return(p)

SpecSize == InitSize /\ [][NextSize]_vars

(***************************************************************************)
(* Specification SpecSave: the periodic saves of the snapshot files, with  *)
(* failing writes and crashes of the process.                              *)
(***************************************************************************)
InitSave ==
  /\ maxPositions = 2
  /\ entryOrderType = "Market"
  /\ initialBalance = 1000
  /\ now = 1
  /\ Flat /\ ExecutorIdle /\ MonitorIdle
  /\ files \in [Paths -> {NoFile, File(Contents(0))}]
  /\ \A name \in Names : files[tmpPath(name)] = NoFile
  /\ save = NoSave

NextSave ==
  \/ \E name \in Names : SaveStart(name)
  \/ \E ok \in BOOLEAN : WritePiece(ok)
  \/ \E ok \in BOOLEAN : Rename(ok)
  \/ Crash
  \/ Restart

SpecSave == InitSave /\ [][NextSave]_vars

(***************************************************************************)
(* Specification SpecProtect: the monitor over one position of the venue,  *)
(* tracked or not, with or without a stop and a trailing stop; every       *)
(* protective call may be accepted, rejected or fail in transport.         *)
(***************************************************************************)
\* the venue holds one position, on s1, which the Ledger does not know
Untracked(p) ==
  /\ activePositions = [s \in Symbols |-> 0]
  /\ heap = <<>>
  /\ remote = [s \in Symbols |-> IF s = "s1" THEN p ELSE NoRemote]

InitProtect ==
  /\ maxPositions = 2
  /\ entryOrderType = "Market"
  /\ initialBalance = 1000
  /\ now = 1
  /\ \E side \in Sides, stopLoss \in {0, 30}, trailingStop \in {0, 4} :
       \/ Loaded(Held(side, 40, 1, stopLoss, 0, trailingStop))
       \/ Untracked(Held(side, 40, 1, stopLoss, 0, trailingStop))
  /\ ExecutorIdle /\ StoreIdle /\ MonitorIdle

NextProtect ==
  \/ \E k \in 1..NumTicks : TickStart(k)
  \/ \E k \in 1..NumTicks : TickSnapshot(k, TRUE)
  \/ \E k \in 1..NumTicks, atrValue \in AtrValues : ProtectAtr(k, atrValue)
  \/ \E k \in 1..NumTicks, res \in CallResults : ProtectSL(k, res)
  \/ \E k \in 1..NumTicks, res \in CallResults : ProtectTrail(k, res)
  \/ \E r \in restores, res \in CallResults : VenueRestore(r, res)

SpecProtect == InitProtect /\ [][NextProtect]_vars

(***************************************************************************)
(* Specification SpecGrace: the position loaded at startup has just been   *)
(* opened; the venue closes it while the clock runs through the grace      *)
(* period.                                                                 *)
(***************************************************************************)
InitGrace ==
  /\ maxPositions = 2
  /\ entryOrderType = "Market"
  /\ initialBalance = 1000
  /\ now = 1
  /\ \E side \in Sides : Loaded(Held(side, 40, 1, 36, 0, 4))
  /\ ExecutorIdle /\ StoreIdle /\ MonitorIdle

NextGrace ==
  \/ \E exitPrice \in ExitPrices(remote["s1"].avgPrice), pnl \in ClosedPnls :
       VenueClose("s1", exitPrice, pnl)
  \/ AdvanceTime
  \/ \E k \in 1..NumTicks : TickStart(k)
  \/ \E k \in 1..NumTicks, ok \in BOOLEAN : TickSnapshot(k, ok)
  \/ \E k \in 1..NumTicks : CloseWait(k)
  \/ \E m \in 1..NumMatches, ok \in BOOLEAN : MatchList(m, ok)
  \/ \E m \in 1..NumMatches, fee \in ExecFees : MatchFees(m, fee)

SpecGrace == InitGrace /\ [][NextGrace]_vars

(***************************************************************************)
(* Specification SpecMatch: the venue has closed the loaded position       *)
(* (Buy, entry 40, quantity 10) before the first tick and lists up to    *)
(* MatchLen settlements on its symbol, the newest first: of this position  *)
(* or of earlier ones, with entry prices and quantities exact, near and    *)
(* far, created before or after the position was opened, the oldest        *)
(* possibly consumed already.                                              *)
(***************************************************************************)
MatchRecs ==
  [side : Sides, size : {<<40, 10>>, <<41, 10>>, <<40, 11>>, <<44, 10>>, <<40, 13>>},
   createdTime : {0, 2}]

\* the venue's list of closed-PnL records made of recs, ids counting from the oldest
Listed(recs) ==
  [n \in 1..Len(recs) |->
     [orderId |-> Len(recs) - n + 1, symbol |-> "s1", side |-> recs[n].side,
      avgEntryPrice |-> recs[n].size[1], avgExitPrice |-> 42, qty |-> recs[n].size[2],
      closedPnl |-> 2, createdTime |-> recs[n].createdTime]]

InitMatch ==
  /\ maxPositions = 2
  /\ entryOrderType = "Market"
  /\ initialBalance = 1000
  /\ now = StartTime
  /\ activePositions = [s \in Symbols |-> IF s = "s1" THEN 1 ELSE 0]
  /\ heap = <<Existing("s1", Held("Buy", 40, 10, 36, 0, 4))>>
  /\ remote = [s \in Symbols |-> NoRemote]
  /\ \E len \in 0..MatchLen : \E recs \in [1..len -> MatchRecs] : closedPnl = Listed(recs)
  /\ usedCloseOrderIds \in {{}, {1}}
  /\ ExecutorIdle /\ StoreIdle
  /\ tick = [k \in 1..NumTicks |-> IdleTick]
  /\ match = [m \in 1..NumMatches |-> IdleMatch]
  /\ sweep = [j \in 1..NumSweeps |-> IdleSweep]
  /\ recentlyClosedSymbols = [s \in Symbols |-> 0]
  /\ pnlHistory = <<>>
  /\ resetTimestamp = 0
  /\ restores = {}

NextMatch ==
  \/ AdvanceTime
  \/ \E k \in 1..NumTicks : TickStart(k)
  \/ \E k \in 1..NumTicks : TickSnapshot(k, TRUE)
  \/ \E k \in 1..NumTicks : CloseWait(k)
  \/ \E m \in 1..NumMatches : MatchList(m, TRUE)
  \/ \E m \in 1..NumMatches, fee \in ExecFees : MatchFees(m, fee)

SpecMatch == InitMatch /\ [][NextMatch]_vars

(***************************************************************************)
(* Specification SpecReset: the PnL data was reset through /api/reset at   *)
(* ResetTime; the venue lists settlements made before and at that time;    *)
(* the sweeps run, the reset may be asked for again at the same time, and  *)
(* the process may be restarted.                                           *)
(***************************************************************************)
\* monitor.js 345-351, resetPnl, called by the /api/reset handler (index.js
\* 268-279), which then has the empty history written to pnl_history.json
ResetPnl ==
  /\ now = ResetTime
  /\ pnlHistory' = <<>>
  /\ usedCloseOrderIds' = {}
  /\ resetTimestamp' = now
  /\ UNCHANGED <<storeVars, maxPositions, entryOrderType, initialBalance, activePositions, heap,
                 pendingSymbols, inv, nEvents, remote, book, now, tick, match, sweep,
                 recentlyClosedSymbols, closedPnl, restores>>

\* the process is restarted: startPersistence reads savedHistory from
\* pnl_history.json (persistence.js 49-71: the files written are the trade log,
\* the history and the total), index.js 34-38 calls hydratePnl(saved.pnlHistory,
\* saved.totalPnl) without a third argument, and monitor.js 315 starts
\* resetTimestamp at 0
Reboot(savedHistory) ==
  /\ pnlHistory' = savedHistory
  /\ usedCloseOrderIds' = hydratePnl(savedHistory)
  /\ resetTimestamp' = 0
  /\ sweep' = [j \in 1..NumSweeps |-> IdleSweep]
  /\ UNCHANGED <<storeVars, maxPositions, entryOrderType, initialBalance, activePositions, heap,
                 pendingSymbols, inv, nEvents, remote, book, now, tick, match,
                 recentlyClosedSymbols, closedPnl, restores>>

InitReset ==
  /\ maxPositions = 2
  /\ entryOrderType = "Market"
  /\ initialBalance = 1000
  /\ now = ResetTime
  /\ \E len \in 0..MatchLen : \E recs \in [1..len -> MatchRecs] : closedPnl = Listed(recs)
  /\ Flat /\ ExecutorIdle /\ StoreIdle
  /\ tick = [k \in 1..NumTicks |-> IdleTick]
  /\ match = [m \in 1..NumMatches |-> IdleMatch]
  /\ sweep = [j \in 1..NumSweeps |-> IdleSweep]
  /\ recentlyClosedSymbols = [s \in Symbols |-> 0]
  /\ pnlHistory = <<>>
  /\ usedCloseOrderIds = {}
  /\ resetTimestamp = ResetTime
  /\ restores = {}

NextReset ==
  \/ AdvanceTime
  \/ ResetPnl
  \/ \E savedHistory \in {<<>>, pnlHistory} : Reboot(savedHistory)
  \/ \E j \in 1..NumSweeps : SweepStart(j)
  \/ \E j \in 1..NumSweeps : SweepList(j, TRUE)
  \/ \E j \in 1..NumSweeps : SweepExec(j)

SpecReset == InitReset /\ [][NextReset]_vars

(***************************************************************************)
(* Properties                                                              *)
(***************************************************************************)
\* the invocations a step starts, in the order of their events
Handed == {p \in Procs : inv[p].pc = "idle" /\ inv'[p].pc # "idle"}

\* two events of one message on a symbol with no position and no lock, with
\* a capacity slot free, the first passing the instrument and balance checks
SameTickPair(p, q) ==
  /\ p \in Handed /\ q \in Handed /\ p < q
  /\ inv'[p].symbol = inv'[q].symbol
  /\ activePositions[inv'[p].symbol] = 0
  /\ inv'[p].symbol \notin pendingSymbols
  /\ ~MaxPositionsReached(pendingSymbols)
  /\ initialBalance > 0
  /\ inv'[p].reason # "Unknown instrument"

\* the second of the pair is skipped for skipReason and has sent no order,
\* the first holds the lock and goes on to its order
OneProceeds(p, q, skipReason) ==
  /\ inv'[p].pc = "atr"
  /\ inv'[p].symbol \in pendingSymbols'
  /\ inv'[q].pc = "done"
  /\ inv'[q].status = "SKIPPED"
  /\ inv'[q].reason = skipReason
  /\ inv'[q].accepted = 0

\* a fresh entry whose order the venue filled ends FILLED with its position
FilledEnds(p) ==
  (/\ inv[p].ref = 0
   /\ inv[p].order = "filled"
   /\ inv[p].pc \in {"posfetch", "setsl", "settrail"}
   /\ inv'[p].pc \in {"done", "tighten"})
  => (inv'[p].status = "FILLED" /\ inv'[p].position # 0)

\* C1 as stated: of two same-tick events on a free symbol the first goes on
\* to order submission and ends FILLED when the venue fills its order, the
\* second ends SKIPPED with the pending-symbol reason and submits no order
C1Original ==
  [][/\ \A p, q \in Procs :
          SameTickPair(p, q) => OneProceeds(p, q, "Trade pending on symbol")
     /\ \A p \in Procs : FilledEnds(p)]_vars

\* C1, amended: as C1Original, but the second event is skipped at the first
\* gate that fails: with the capacity reason when the first event's lock has
\* taken the last capacity slot, with the pending-symbol reason otherwise
C1SameTick ==
  [][/\ \A p, q \in Procs :
          SameTickPair(p, q) =>
            OneProceeds(p, q,
                        IF Cardinality(ActiveSymbols) + Cardinality(pendingSymbols) + 1
                             >= maxPositions
                          THEN "Max positions reached"
                          ELSE "Trade pending on symbol")
     /\ \A p \in Procs : FilledEnds(p)]_vars

\* two events of one message on one symbol: one FILLED with a new position,
\* the other SKIPPED on the lock without an order
C1Witness ==
  \E p, q \in Procs :
    /\ p # q
    /\ inv[p].msg # 0 /\ inv[p].msg = inv[q].msg
    /\ inv[p].symbol = inv[q].symbol
    /\ inv[p].pc = "done" /\ inv[p].status = "FILLED" /\ inv[p].ref = 0
    /\ activePositions[inv[p].symbol] = inv[p].position
    /\ inv[q].pc = "done" /\ inv[q].status = "SKIPPED"
    /\ inv[q].reason = "Trade pending on symbol" /\ inv[q].accepted = 0

\* the Ledger positions the executor opened
EngineOpened == {s \in Symbols : activePositions[s] # 0
                                 /\ heap[activePositions[s]].origin = "engine"}

\* a step in which an invocation passes the gates as a fresh entry
PassesGate(p) == inv[p].pc = "idle" /\ inv'[p].pc = "atr"

\* C8: an invocation takes the fresh-entry path only when open positions plus
\* locks (its own not counted) are below maxPositions, and the Ledger
\* positions opened by the executor never exceed maxPositions
C8Capacity ==
  /\ [](Cardinality(EngineOpened) <= maxPositions)
  /\ [][(\E p \in Procs : PassesGate(p)) =>
          /\ Cardinality(ActiveSymbols) + Cardinality(pendingSymbols') <= maxPositions
          /\ \A p \in Procs : PassesGate(p) =>
               Cardinality(ActiveSymbols)
                 + Cardinality(pendingSymbols' \ {inv'[p].symbol}) < maxPositions]_vars

\* the Ledger is full of positions the executor opened and an event on
\* another symbol was turned away at the capacity gate
C8Witness ==
  /\ Cardinality(EngineOpened) = maxPositions
  /\ \E p \in Procs :
       /\ inv[p].pc = "done" /\ inv[p].status = "SKIPPED"
       /\ inv[p].reason = "Max positions reached"
       /\ activePositions[inv[p].symbol] = 0

\* the invocations on s that are at or past their order submission
Submitting(s) ==
  {p \in Procs : inv[p].symbol = s
                 /\ inv[p].pc \in {"order", "fillwait", "posfetch", "setsl", "settrail"}}

\* C2: two overlapping events on one symbol never both reach order submission:
\* at any instant at most one in-flight invocation per symbol is past the
\* lock check and at or past its order submission
C2OneInFlight == \A s \in Symbols : Cardinality(Submitting(s)) <= 1

\* C6: over the lifetime of a position every split level is submitted at most
\* once and the notional submitted for it never exceeds its totalBudget
C6EachLevelOnce ==
  \A i \in 1..Len(heap) :
    /\ \A level \in 1..Len(DCA_SPLITS) : heap[i].orders[level] <= 1
    /\ heap[i].orders[1] * DCA_SPLITS[1] + heap[i].orders[2] * DCA_SPLITS[2]
         + heap[i].orders[3] * DCA_SPLITS[3] + heap[i].orders[4] * DCA_SPLITS[4] <= 100

\* C7: the dcaLevel of a position never decreases and stays within
\* 0 .. len(DCA_SPLITS) - 1
C7Monotone ==
  /\ [](\A i \in 1..Len(heap) : heap[i].dcaLevel \in 0..(Len(DCA_SPLITS) - 1))
  /\ [][\A i \in 1..Len(heap) : heap'[i].dcaLevel >= heap[i].dcaLevel]_vars

\* C3: no two records of the PnL history carry the same non-null closeOrderId
C3ConsumedOnce ==
  \A i, j \in 1..Len(pnlHistory) :
    (i # j /\ pnlHistory[i].closeOrderId # 0)
      => pnlHistory[i].closeOrderId # pnlHistory[j].closeOrderId

\* C4: a position that was open in the Ledger has at most one ClosedTrade
C4ClosedOnce ==
  \A i, j \in 1..Len(pnlHistory) :
    (i # j /\ pnlHistory[i].ref # 0) => pnlHistory[i].ref # pnlHistory[j].ref

\* C5: a position that was open and is no longer in the Ledger has a ClosedTrade
C5RemovedWithRecord ==
  \A i \in 1..Len(heap) :
    activePositions[heap[i].symbol] # i
      => \E j \in 1..Len(pnlHistory) : pnlHistory[j].ref = i

\* C9: no position of the Ledger has both a fixed take profit and a trailing stop
C9Exclusive ==
  \A s \in Symbols :
    activePositions[s] # 0
      => ~(heap[activePositions[s]].tpPrice # 0 /\ heap[activePositions[s]].trailingStop # 0)

\* a stop at slPrice for a position recorded at entryPrice is at least one
\* tick and at most 0.9 * entryPrice away from it
StopDistanceOK(side, entryPrice, slPrice) ==
  /\ Abs(slPrice - entryPrice) >= TickSize
  /\ 10 * Abs(slPrice - entryPrice) <= maxSlOffsetX10 * entryPrice
  /\ side = "Buy" => slPrice > 0

\* C10: every stop the executor or the monitor submits, and every stop
\* recorded on a position the executor opened, keeps that distance from the
\* position's recorded entry price
C10StopDistance ==
  /\ \A p \in Procs :
       /\ inv[p].pc \in {"setsl", "settrail"}
            => StopDistanceOK(inv[p].side, inv[p].fillPrice, inv[p].slPrice)
       /\ inv[p].pc = "tighten"
            => StopDistanceOK(heap[inv[p].cursor].side, heap[inv[p].cursor].entryPrice,
                              inv[p].newSL)
  /\ \A k \in DOMAIN tick :
       (tick[k].pc = "protect" /\ tick[k].prot.stage \in {"sl", "trail"})
         => StopDistanceOK(tick[k].prot.side, tick[k].prot.entryPrice, tick[k].prot.slPrice)
  /\ \A i \in 1..Len(heap) :
       (heap[i].origin = "engine" /\ heap[i].slPrice # 0)
         => StopDistanceOK(heap[i].side, heap[i].entryPrice, heap[i].slPrice)

\* a reconciliation tick starts
TickStarts(k) == tick[k].pc = "idle" /\ tick'[k].pc = "snapshot"

\* the Ledger position on s has no stop and no trailing stop, at the venue
\* or in the Ledger
Naked(s) ==
  /\ activePositions[s] # 0
  /\ remote[s].size > 0
  /\ remote[s].stopLoss = 0 /\ remote[s].trailingStop = 0
  /\ heap[activePositions[s]].slPrice = 0 /\ heap[activePositions[s]].trailingStop = 0

\* a tick still running has observed the Ledger position on s with no stop
\* and no trailing stop
ObservedNaked(s) ==
  \E j \in DOMAIN tick :
    /\ tick[j].pc = "protect" /\ tick[j].phase = "track"
    /\ tick[j].prot.symbol = s
    /\ tick[j].snap[s].stopLoss = 0 /\ tick[j].snap[s].trailingStop = 0
    /\ ~tick[j].slMissing /\ ~tick[j].trailMissing

\* C11: the tick whose snapshot shows a naked Ledger position calls the
\* Protection Manager for it within that tick, and with an accepting venue the
\* position has its stop, at the venue and in the Ledger, before the next
\* tick starts
C11NakedHealed ==
  /\ [][\A k \in DOMAIN tick : \A s \in Symbols :
          (tick[k].pc = "snapshot" /\ tick'[k].pc \notin {"idle", "snapshot"} /\ Naked(s))
            => (tick'[k].pc = "protect" /\ tick'[k].prot.symbol = s)]_vars
  /\ [][\A k \in DOMAIN tick : \A s \in Symbols :
          (TickStarts(k) /\ ObservedNaked(s) /\ activePositions[s] # 0)
            => (remote[s].stopLoss # 0
                /\ heap[activePositions[s]].slPrice # 0)]_vars

\* C12: one executeTrade or executeDCA invocation causes at most one entry
\* order to be accepted by the venue, whatever its submission channels do
C12OneOrder == \A p \in Procs : inv[p].accepted <= 1

\* the reconciliation tick adopts the venue's position on s in this step
Adopts(s) ==
  /\ activePositions'[s] # 0
  /\ activePositions'[s] # activePositions[s]
  /\ heap'[activePositions'[s]].origin = "detected"

\* the executor inserts the position it opened on s in this step
Inserts(s) ==
  /\ activePositions'[s] # 0
  /\ activePositions'[s] # activePositions[s]
  /\ heap'[activePositions'[s]].origin = "engine"

\* an executeTrade invocation is opening a position on s: it has passed the
\* gate on the fresh-entry path and has not yet returned
MidOpen(s) ==
  \E p \in Procs :
    /\ inv[p].symbol = s /\ inv[p].ref = 0
    /\ inv[p].pc \in {"atr", "order", "fillwait", "posfetch", "setsl", "settrail"}

\* C13: the tick adopts no symbol that is locked or in the Ledger at that
\* moment, hence none on which the executor is opening a position, and the
\* executor's insert replaces no Ledger entry
C13AdoptUnlocked ==
  /\ [][\A s \in Symbols :
          Adopts(s) => (activePositions[s] = 0 /\ s \notin pendingSymbols)]_vars
  /\ [][\A s \in Symbols : Adopts(s) => ~MidOpen(s)]_vars
  /\ [][\A s \in Symbols : Inserts(s) => activePositions[s] = 0]_vars

\* the invocations that have acquired the lock of their symbol and have not
\* yet left their try block
HoldsLock(p) ==
  inv[p].pc \in {"atr", "order", "fillwait", "posfetch", "setsl", "settrail"}

\* C14: no lock is left when no invocation is in flight, and the lock of a
\* symbol is held as long as an invocation that acquired it is in flight
C14LockReleased ==
  /\ (\A p \in Procs : inv[p].pc \in {"idle", "done"}) => pendingSymbols = {}
  /\ \A p \in Procs : HoldsLock(p) => inv[p].symbol \in pendingSymbols

\* the venue's closed-PnL record with the given close-order-id
VenueRecord(id) == CHOOSE rec \in {closedPnl[n] : n \in 1..Len(closedPnl)} : rec.orderId = id

\* C15: a ClosedTrade that live close matching made from a matched venue
\* record carries that record's closedPnl as its pnl, whatever the value
C15VenuePnl ==
  \A i \in 1..Len(pnlHistory) :
    (pnlHistory[i].ref # 0 /\ pnlHistory[i].closeOrderId # 0)
      => pnlHistory[i].pnl = VenueRecord(pnlHistory[i].closeOrderId).closedPnl

\* the records of the history that carry the close-order-id
WithId(history, id) == {n \in 1..Len(history) : history[n].closeOrderId = id}

\* the records a backfill sweep has still to go through, and where it is
Ahead(j) ==
  IF sweep[j].pc = "list" THEN [records |-> closedPnl, at |-> 0]
  ELSE [records |-> sweep[j].bybitRecords, at |-> sweep[j].at]

\* C16: a venue record the sweep has yet to reach and whose close-order-id
\* is consumed is never taken up by the sweep, and the sweep's step leaves
\* the history's records for that id, the consumed set's entry and, but for
\* the one record the step processes, the history length as they are
C16SkipConsumed ==
  [][\A j \in DOMAIN sweep :
       sweep'[j] # sweep[j] =>
         /\ \A i \in (Ahead(j).at + 1)..Len(Ahead(j).records) :
              Ahead(j).records[i].orderId \in usedCloseOrderIds =>
                /\ ~(sweep'[j].pc = "exec" /\ sweep'[j].at = i)
                /\ Cardinality(WithId(pnlHistory', Ahead(j).records[i].orderId))
                     = Cardinality(WithId(pnlHistory, Ahead(j).records[i].orderId))
                /\ Ahead(j).records[i].orderId \in usedCloseOrderIds'
         /\ Len(pnlHistory') <= Len(pnlHistory) + (IF sweep[j].pc = "exec" THEN 1 ELSE 0)
         /\ sweep[j].pc # "exec" =>
              (pnlHistory' = pnlHistory /\ usedCloseOrderIds' = usedCloseOrderIds)]_vars

\* a sweep has passed over the consumed record at the head of the venue's
\* list and fetches the executions of the record after it; the history is
\* what the restart found
C16Witness ==
  \E j \in DOMAIN sweep :
    /\ sweep[j].pc = "exec" /\ sweep[j].at = 2
    /\ sweep[j].bybitRecords[1].orderId \in usedCloseOrderIds
    /\ Cardinality(WithId(pnlHistory, sweep[j].bybitRecords[1].orderId)) = 1
    /\ WithId(pnlHistory, sweep[j].bybitRecords[2].orderId) = {}

\* the fresh-entry invocation that puts its position into the Ledger in this step
Creates(p) ==
  /\ inv[p].ref = 0
  /\ inv[p].pc \in {"setsl", "settrail"}
  /\ inv'[p].position # 0
  /\ Inserts(inv[p].symbol)

\* C17: executeTrade puts a position into the Ledger only when the entry
\* order it submitted is filled; an invocation whose passive order is not
\* filled (whatever the status check after the wait came back with) creates
\* no Ledger position
C17FillConfirmed ==
  [][\A p \in Procs : Creates(p) => inv[p].order = "filled"]_vars

\* a fresh entry between the sizing and the return of executeTrade
FreshInFlight(p) ==
  /\ inv[p].ref = 0
  /\ inv[p].pc \in {"atr", "order", "fillwait", "posfetch", "setsl", "settrail"}

\* the whole lots in (first split of the larger of the configured notional
\* and the minimum percentage of the balance) / price
FirstSplitLots(balance, price) ==
  LotSize * ((DCA_SPLITS[1] * Max(100 * positionSizeUsd * leverage, balance * minPositionPct))
               \div (100 * 100 * price * LotSize))

RestoredIds == {SavedRecord(RestartTime).closeOrderId}

\* C20: after the restart every close-order-id of the history is in the
\* consumed set, and neither a backfill sweep nor a live match adds a second
\* record for a close the restored history had settled or changes the
\* restored record
C20NoReplay ==
  /\ \A n \in 1..Len(pnlHistory) :
       pnlHistory[n].closeOrderId # 0 => pnlHistory[n].closeOrderId \in usedCloseOrderIds
  /\ \A id \in RestoredIds :
       /\ Cardinality(WithId(pnlHistory, id)) = 1
       /\ \A n \in WithId(pnlHistory, id) :
            pnlHistory[n] \in {SavedRecord(1), SavedRecord(RestartTime)}

\* after the restart a backfill sweep has gone through the venue's list,
\* which still holds the settled close, and a close the history did not
\* know has been recorded
C20Witness ==
  /\ \A j \in DOMAIN sweep : sweep[j].pc = "idle"
  /\ \E n \in 1..Len(closedPnl) : closedPnl[n].orderId \in RestoredIds
  /\ WithId(pnlHistory, 2) # {}
  /\ \A id \in RestoredIds : Cardinality(WithId(pnlHistory, id)) = 1

\* the file holds one snapshot from its first piece to its last
Complete(f) == f.exists /\ Len(f.data) = FileLen /\ \A i \in 1..FileLen : f.data[i] = f.data[1]

\* C19: saveJSON writes the temp file and renames it over the target: while
\* it runs the target is what it was before the call, and when the process
\* dies inside it the target is what it was before the call or the complete
\* new snapshot; a target is never a partly written file
C19AtomicSave ==
  \A name \in Names :
    /\ files[targetPath(name)].exists => Complete(files[targetPath(name)])
    /\ (save.pc \in {"write", "rename"} /\ save.name = name)
         => files[targetPath(name)] = save.old
    /\ (save.pc = "down" /\ save.name = name)
         => files[targetPath(name)] \in {save.old, File(Contents(save.data))}

\* the process died while the temp file of a snapshot was partly written;
\* the target still holds the complete snapshot saved before
C19Witness ==
  /\ save.pc = "down"
  /\ files[tmpPath(save.name)].exists
  /\ Len(files[tmpPath(save.name)].data) \in 1..(FileLen - 1)
  /\ Complete(files[targetPath(save.name)])
  /\ files[targetPath(save.name)].data[1] > 0
  /\ files[targetPath(save.name)].data[1] < save.data

\* the SL(/TP) call of an invocation with a trailing distance comes back
SLReturns(p) ==
  /\ inv[p].pc = "setsl"
  /\ inv[p].trailingStopDist # 0 /\ inv[p].trailActivePrice # 0
  /\ inv'[p] # inv[p]

\* C21: after the fill the SL(/TP) call comes first and the trailing-stop
\* call second; the trailing-stop call is made whatever the SL(/TP) call
\* came back with, and whatever the two calls came back with the invocation
\* ends FILLED with the Ledger updated
C21BothAttempted ==
  [][\A p \in Procs :
       /\ SLReturns(p) => inv'[p].pc = "settrail"
       /\ (inv'[p].pc = "settrail" /\ inv[p].pc # "settrail") => inv[p].pc = "setsl"
       /\ (inv[p].pc \in {"setsl", "settrail"} /\ inv'[p].pc \notin {"setsl", "settrail"})
            => (inv'[p].position # 0 /\ inv'[p].status = "FILLED"
                /\ activePositions'[inv[p].symbol] # 0)]_vars

\* the trailing-stop call of run k's ensureProtectionOnPosition comes back
TrailReturns(k) ==
  /\ tick[k].pc = "protect" /\ tick[k].prot.stage = "trail"
  /\ tick'[k] # tick[k]

\* the venue took the trailing stop in this step
TrailConfirmed(k) ==
  /\ remote'[tick[k].prot.symbol].trailingStop = tick[k].prot.trailingStop
  /\ remote'[tick[k].prot.symbol] # remote[tick[k].prot.symbol]

\* C22: ensureProtectionOnPosition reports, and the caller records in the
\* Ledger's position, exactly the fields the venue confirmed: the stop when
\* the stop call succeeded, the trailing stop when the trailing call
\* succeeded, whatever became of the other call
C22ConfirmedFields ==
  [][\A k \in DOMAIN tick :
       TrailReturns(k) =>
         LET prot == tick[k].prot
         IN /\ TrailConfirmed(k) => heap'[prot.ref].trailingStop = prot.trailingStop
            /\ remote' = remote => heap'[prot.ref].trailingStop = heap[prot.ref].trailingStop
            /\ prot.resultSl # 0 => heap'[prot.ref].slPrice = prot.resultSl
            /\ prot.resultSl = 0 => heap'[prot.ref].slPrice = heap[prot.ref].slPrice]_vars

\* run k calls ensureProtectionOnPosition in this step
CallsProtection(k) ==
  /\ tick'[k].pc = "protect" /\ tick'[k].prot.stage = "atr"
  /\ \/ tick[k].pc # "protect"
     \/ tick[k].prot.stage # "atr"
     \/ tick[k].phase # tick'[k].phase

\* C23: a tick calls ensureProtectionOnPosition for a position, on adoption
\* and in the health check, only when its snapshot shows neither a stop-loss
\* nor a trailing stop for it; a position whose stop-loss is present at the
\* venue is not given a new one
C23OnlyWhenNaked ==
  [][\A k \in DOMAIN tick :
       CallsProtection(k) =>
         /\ tick'[k].snap[tick'[k].prot.symbol].stopLoss = 0
         /\ tick'[k].snap[tick'[k].prot.symbol].trailingStop = 0]_vars

\* the position object is less than 15 s old
Young(i) == (now - heap[i].openTime) * TimeUnitMs < 15000

\* the closures the runs have collected
Collected(ticks) == UNION {ticks[k].closedEntries : k \in DOMAIN ticks}

\* C24: a step of a tick taken less than 15 s after a position's openTime
\* does not collect the position as closed, does not mark its symbol as
\* closed, does not remove it from the Ledger and starts no settlement match
\* for it; no ClosedTrade of a position is recorded while it is that young
C24GracePeriod ==
  [][\A i \in 1..Len(heap) :
       (Young(i) /\ tick' # tick) =>
         /\ i \in Collected(tick') => i \in Collected(tick)
         /\ activePositions[heap[i].symbol] = i
              => /\ activePositions'[heap[i].symbol] = i
                 /\ recentlyClosedSymbols'[heap[i].symbol]
                      = recentlyClosedSymbols[heap[i].symbol]
         /\ \A m \in DOMAIN match : match'[m].ref = i => match[m].ref = i
         /\ \A n \in 1..Len(pnlHistory') : pnlHistory'[n].ref # i]_vars

\* the venue closed the position when it had just been opened, and it is
\* collected as closed only by a run 15 s after its openTime
C24Witness ==
  \E k \in DOMAIN tick :
    /\ tick[k].pc = "wait" /\ tick[k].closedEntries = {1}
    /\ closedPnl # <<>> /\ closedPnl[1].createdTime = heap[1].openTime
    /\ (now - heap[1].openTime) * TimeUnitMs = 15000

\* the snapshot run k works from in this step
SnapOf(k) == IF tick[k].pc = "snapshot" THEN remote ELSE tick[k].snap

\* the Ledger's position on s after the step
TrackedAfter(s) == heap'[activePositions'[s]]

\* run k gets its snapshot and goes through the Ledger from its first entry
\* to its last in this step
WholeRun(k) ==
  /\ TickSnapshot(k, TRUE)
  /\ tick'[k].pc \in {"idle", "wait"}
  /\ heap' = heap /\ activePositions' = activePositions

\* C25: the health check of a tick sends again the Ledger's stop-loss when
\* its snapshot shows none, and the Ledger's trailing stop when its snapshot
\* shows none, and nothing for a value the snapshot shows; the run goes on
\* without waiting for the answers; of a request for both, the venue gets
\* the stop-loss first and the trailing stop only once the stop-loss call is
\* answered
C25Restore ==
  /\ [][\A k \in DOMAIN tick :
          tick'[k] # tick[k] =>
            /\ \A r \in restores' \ restores :
                 /\ activePositions'[r.symbol] # 0
                 /\ r.stopLoss # 0 \/ r.trailingStop # 0
                 /\ r.stopLoss # 0 =>
                      /\ SnapOf(k)[r.symbol].stopLoss = 0
                      /\ r.stopLoss = TrackedAfter(r.symbol).slPrice
                 /\ r.trailingStop # 0 =>
                      /\ SnapOf(k)[r.symbol].trailingStop = 0
                      /\ r.trailingStop = TrackedAfter(r.symbol).trailingStop
                      /\ r.activePrice = TrackedAfter(r.symbol).trailActivePrice
            /\ WholeRun(k) =>
                 \A s \in Symbols :
                   (activePositions[s] # 0 /\ remote[s].size > 0) =>
                     LET tracked == heap[activePositions[s]]
                         slMissing == remote[s].stopLoss = 0 /\ tracked.slPrice # 0
                         trailMissing == remote[s].trailingStop = 0 /\ tracked.trailingStop # 0
                     IN (slMissing \/ trailMissing) =>
                          \E r \in restores' :
                            /\ r.symbol = s
                            /\ r.stopLoss = (IF slMissing THEN tracked.slPrice ELSE 0)
                            /\ r.trailingStop = (IF trailMissing THEN tracked.trailingStop ELSE 0)]_vars
  /\ [][\A r \in restores \ restores' :
          (tick' = tick /\ r.stopLoss # 0) =>
            remote'[r.symbol].trailingStop = remote[r.symbol].trailingStop]_vars

\* the engine's position has lost both protective orders at the venue; a
\* run has sent the Ledger's stop-loss again, has ended, and the trailing
\* stop waits for the answer
C25Witness ==
  /\ \A k \in DOMAIN tick : tick[k].pc = "idle"
  /\ \E r \in restores :
       /\ activePositions[r.symbol] # 0
       /\ remote[r.symbol].size > 0
       /\ remote[r.symbol].stopLoss = 0 /\ remote[r.symbol].trailingStop = 0
       /\ r.stopLoss # 0 /\ r.stopLoss = heap[activePositions[r.symbol]].slPrice
       /\ r.trailingStop # 0 /\ r.trailingStop = heap[activePositions[r.symbol]].trailingStop

\* the step puts a position for a symbol the Ledger did not hold into the Ledger
Added == {s \in Symbols : activePositions[s] = 0 /\ activePositions'[s] # 0}

\* after the step a stop for the Ledger's position i is being computed for a
\* Ledger of positionCount positions and sent: by tightenAllSLs, or by
\* ensureProtectionOnPosition when the position has none
Recomputing(i, positionCount) ==
  \/ \E p \in Procs : /\ inv'[p].pc = "tighten"
                      /\ inv'[p].positionCount = positionCount
                      /\ inv'[p].cursor <= i
  \/ \E k \in DOMAIN tick : /\ tick'[k].pc = "protect"
                            /\ tick'[k].prot.ref = i
                            /\ heap'[i].slPrice = 0

\* C26: whenever a step adds a position to the Ledger, every position of the
\* Ledger whose stop differs from the stop computed from the risk share for
\* the new number of positions gets that stop sent to the venue
C26TightenOnAdd ==
  [][Added # {} =>
       LET size == Cardinality({s \in Symbols : activePositions'[s] # 0})
       IN \A s \in Symbols :
            LET i == activePositions'[s]
            IN (i # 0 /\ TightenedSL(heap'[i], size) # heap'[i].slPrice) =>
                 Recomputing(i, size)]_vars

\* |a - b| / b < num / den
Within(a, b, num, den) == den * Abs(a - b) < num * b

\* the tiers of the settlement match for a position tracked with entryPrice, qty, side
Satisfies(tier, rec, entryPrice, qty, side) ==
  CASE tier = 1 -> Within(rec.avgEntryPrice, entryPrice, 5, 1000) /\ Within(rec.qty, qty, 1, 100)
    [] tier = 2 -> Within(rec.avgEntryPrice, entryPrice, 5, 100) /\ Within(rec.qty, qty, 20, 100)
    [] tier = 3 -> rec.side = side
    [] tier = 4 -> TRUE

\* match m gets the venue's list in this step and selects a record from it
Selects(m) ==
  /\ match[m].pc = "list"
  /\ match'[m].pc = "fees"
  /\ match'[m].closeOrderId # 0

\* the records the attempt of match m filters out of the venue's list
Filtered(m) ==
  LET Eligible(rec) ==
        /\ rec.symbol = match[m].symbol
        /\ rec.orderId \notin usedCloseOrderIds
        /\ match[m].attempt < maxRetries - 2 => rec.createdTime >= match[m].openTime
  IN SelectSeq(closedPnl, Eligible)

Ids(list) == {list[n].orderId : n \in 1..Len(list)}

Exhausted(m) ==
  /\ match[m].pc # "idle" /\ match'[m].pc = "idle"
  /\ match[m].closeOrderId = 0

\* C29: when a settlement match ends after its last attempt with no record
\* selected, the symbol leaves the Ledger, the history gets exactly one more
\* record, for that position and with pnl 0, exit price 0 and no
\* close-order-id, and the consumed set stays as it is
C29Unresolved ==
  [][\A m \in DOMAIN match :
       Exhausted(m) =>
         /\ match[m].attempt = 5
         /\ activePositions'[match[m].symbol] = 0
         /\ Len(pnlHistory') = Len(pnlHistory) + 1
         /\ SubSeq(pnlHistory', 2, Len(pnlHistory')) = pnlHistory
         /\ pnlHistory'[1].ref = match[m].ref
         /\ pnlHistory'[1].symbol = match[m].symbol
         /\ pnlHistory'[1].pnl = 0
         /\ pnlHistory'[1].exitPrice = 0
         /\ pnlHistory'[1].closeOrderId = 0
         /\ usedCloseOrderIds' = usedCloseOrderIds]_vars

\* the venue lists one settlement, a consumed one; the match has ended
\* after six attempts without a record and the history holds
\* the unresolved record of the position, which has left the Ledger
C29Witness ==
  /\ Len(closedPnl) = 1
  /\ usedCloseOrderIds = {1}
  /\ \A m \in DOMAIN match : match[m].pc = "idle"
  /\ activePositions["s1"] = 0
  /\ Len(pnlHistory) = 1
  /\ pnlHistory[1].ref = 1 /\ pnlHistory[1].pnl = 0 /\ pnlHistory[1].exitPrice = 0
  /\ pnlHistory[1].closeOrderId = 0

\* sweep j writes the venue record it is at into the history in this step
Backfills(j) == sweep[j].pc = "exec" /\ sweep'[j] # sweep[j]

\* the unresolved record n of the history is the close the venue record rec
\* settles: same symbol, and the position was open when the venue closed it
SameTrade(n, rec) ==
  /\ Unresolved(pnlHistory[n])
  /\ pnlHistory[n].symbol = rec.symbol
  /\ pnlHistory[n].openTime <= rec.createdTime
  /\ rec.createdTime <= pnlHistory[n].closedAt

\* C30: a sweep that writes a venue record for which the history holds the
\* unresolved record of the same trade repairs that record (exit price, pnl,
\* close-order-id) and appends nothing, the id becomes consumed; and a record
\* of the history that a sweep changes is the unresolved record of the trade
\* the venue record settles
C30RepairInPlace ==
  [][\A j \in DOMAIN sweep :
       Backfills(j) =>
         LET rec == sweep[j].bybitRecords[sweep[j].at]
             After == {pnlHistory'[n] : n \in 1..Len(pnlHistory')}
         IN /\ \A n \in 1..Len(pnlHistory) :
                 SameTrade(n, rec) =>
                   /\ Len(pnlHistory') = Len(pnlHistory)
                   /\ rec.orderId \in usedCloseOrderIds'
                   /\ [pnlHistory[n] EXCEPT !.exitPrice = rec.avgExitPrice,
                                            !.pnl = rec.closedPnl,
                                            !.closeOrderId = rec.orderId] \in After
            /\ \A n \in 1..Len(pnlHistory) :
                 pnlHistory[n] \notin After => SameTrade(n, rec)]_vars

\* sweep j, which got the venue's list, goes through the rest of it and ends
\* in this step
SweepEnds(j) ==
  /\ SweepList(j, TRUE) \/ SweepExec(j)
  /\ sweep'[j].pc = "idle"

\* after the step the history holds an unresolved record whose settlement
\* the list of sweep j shows, not consumed and not older than the last reset
LeftUnresolved(j) ==
  \E n \in 1..Len(pnlHistory') : \E r \in 1..Len(Ahead(j).records) :
    LET p == pnlHistory'[n]
        rec == Ahead(j).records[r]
    IN /\ Unresolved(p)
       /\ p.symbol = rec.symbol
       /\ p.openTime <= rec.createdTime /\ rec.createdTime <= p.closedAt
       /\ rec.orderId \notin usedCloseOrderIds'
       /\ ~(resetTimestamp > 0 /\ rec.createdTime < resetTimestamp)

\* C31: a backfill sweep that got the venue's list does not end while the
\* history holds an unresolved record whose settlement the list shows, not
\* consumed and not older than the reset, whatever else the history holds
C31Repaired ==
  [][\A j \in DOMAIN sweep : SweepEnds(j) => ~LeftUnresolved(j)]_vars

\* invocation p, back from getVWAP, submits its DCA order in this step
SubmitsAdd(p) == inv[p].pc = "vwap" /\ inv'[p].pc = "order"

\* invocation p ends FILLED for an add to a position in this step
EndsAdd(p) ==
  /\ inv[p].ref # 0
  /\ inv[p].pc \in {"setsl", "settrail"}
  /\ inv'[p].pc = "done" /\ inv'[p].status = "FILLED"

\* C32: a DCA order is submitted only for a position below the final level
\* and only for an event price at or beyond the VWAP band of the position's
\* side (vwap - k sd for Buy, vwap + k sd for Sell) or, without VWAP data,
\* strictly better than lastEntryPrice; an add that ends FILLED leaves
\* lastEntryPrice at the event's price and dcaLevel one higher than it was
C32DcaGate ==
  [][\A p \in Procs :
       /\ SubmitsAdd(p) =>
            LET pos == heap[inv[p].ref]
                price == inv[p].price
            IN /\ pos.dcaLevel < Len(DCA_SPLITS) - 1
               /\ \A v \in VwapResults :
                    DcaCheck(p, v) =>
                      IF v # <<>>
                        THEN IF pos.side = "Buy" THEN price <= v[1] - 2 * v[2]
                             ELSE price >= v[1] + 2 * v[2]
                        ELSE IF pos.side = "Buy" THEN price < pos.lastEntryPrice
                             ELSE price > pos.lastEntryPrice
       /\ EndsAdd(p) =>
            /\ heap'[inv[p].ref].lastEntryPrice = inv[p].price
            /\ heap'[inv[p].ref].dcaLevel = heap[inv[p].ref].dcaLevel + 1]_vars

(***************************************************************************)
(* C33: every executeTrade invocation ends with exactly one terminal       *)
(* outcome, SKIPPED, FILLED, FAILED or ERROR, logged once: an invocation   *)
(* in flight has no outcome yet, the step that ends it logs one of the     *)
(* four, the outcome logged is never replaced or joined by another, the    *)
(* invocation leaves only through its logged outcome (no error reaches the *)
(* caller), and the value returned is a position iff the outcome is FILLED.*)
(***************************************************************************)
TerminalOutcomes == {"SKIPPED", "FILLED", "FAILED", "ERROR"}

\* logTrade has been called for the invocation in slot p
Logged(p) == inv[p].pc \in {"done", "tighten"}

InFlight(p) == inv[p].pc \notin {"idle", "done", "tighten"}

C33OneOutcome ==
  [][\A p \in Procs :
       /\ ~Logged(p) => inv[p].status = "" /\ inv[p].position = 0
       /\ (~Logged(p) /\ Logged(p)') =>
            /\ inv'[p].status \in TerminalOutcomes
            /\ inv'[p].position # 0 <=> inv'[p].status = "FILLED"
       /\ (Logged(p) /\ inv'[p].pc # "idle") =>
            /\ Logged(p)'
            /\ inv'[p].status = inv[p].status
            /\ inv'[p].position = inv[p].position
            /\ inv'[p].msg = inv[p].msg
       /\ (InFlight(p) /\ ~InFlight(p)') => Logged(p)'
       /\ (inv[p].pc = "idle" /\ inv'[p].pc # "idle") =>
            InFlight(p)' \/ inv'[p].status = "SKIPPED"]_vars

\* a request of an invocation threw: the outer catch logged ERROR
C33Witness ==
  \E p, q \in Procs :
    /\ inv[p].pc = "done" /\ inv[p].status = "ERROR" /\ inv[p].position = 0
    /\ inv[q].pc = "done" /\ inv[q].status = "FILLED" /\ inv[q].position # 0


(***************************************************************************)
(* C34: a step of an executeTrade / executeDCA invocation that does not    *)
(* end it FILLED leaves the Ledger as it is: the same symbols map to the   *)
(* same position objects, no object is created, and entryPrice, qty,       *)
(* slPrice, dcaLevel and lastEntryPrice of every object are unchanged.     *)
(* The steps are those of the invocation itself, from its call to its      *)
(* return, whatever its outcome: gating skip, rejection, unfilled limit    *)
(* order, thrown error.                                                    *)
(***************************************************************************)
\* a step of invocation p other than one that ends FILLED, or that belongs to
\* the stop tightening a FILLED entry started
StepNotFilled(p) ==
  /\ inv'[p] # inv[p]
  /\ inv'[p].status # "FILLED"
  /\ inv[p].status # "FILLED"

LedgerSame ==
  /\ activePositions' = activePositions
  /\ Len(heap') = Len(heap)
  /\ \A i \in 1..Len(heap) :
       /\ heap'[i].entryPrice = heap[i].entryPrice
       /\ heap'[i].qty = heap[i].qty
       /\ heap'[i].slPrice = heap[i].slPrice
       /\ heap'[i].dcaLevel = heap[i].dcaLevel
       /\ heap'[i].lastEntryPrice = heap[i].lastEntryPrice

C34LedgerUntouched ==
  [][((\E p \in Procs : StepNotFilled(p))
      /\ \A p \in Procs : inv'[p] # inv[p] => StepNotFilled(p)) => LedgerSame]_vars

\* the order of an add to a position was rejected: the add ended FAILED and
\* the position is still at its first level
C34Witness ==
  \E p \in Procs :
    /\ inv[p].pc = "done" /\ inv[p].ref # 0 /\ inv[p].nextLevel = 1
    /\ inv[p].status = "FAILED"
    /\ heap[inv[p].ref].dcaLevel = 0


(***************************************************************************)
(* C35: recordClose removes from the Ledger only the position instance     *)
(* whose close was detected: the step that ends a settlement match made    *)
(* for position object ref leaves the Ledger entry of the symbol alone     *)
(* when that entry is by now another object, a position opened on the      *)
(* symbol after the dedup guard had removed the closed one.                *)
(***************************************************************************)
\* the settlement match in slot m ends: recordClose runs
EndsMatch(m) == match[m].pc # "idle" /\ match'[m].pc = "idle"

C35OwnInstance ==
  [][\A m \in DOMAIN match :
       EndsMatch(m) =>
         LET s == match[m].symbol
         IN activePositions[s] \notin {0, match[m].ref} =>
              activePositions'[s] = activePositions[s]]_vars


(***************************************************************************)
(* C36: the Ledger's slPrice is a stop the venue has accepted: when a      *)
(* step ends executeTrade or executeDCA with FILLED, or ends a stop        *)
(* request of tightenAllSLs, for a symbol whose position the venue still   *)
(* holds, and no other protection call for that symbol is in flight after  *)
(* the step, the slPrice of the symbol's Ledger entry equals the stop loss *)
(* the venue holds for the position.                                       *)
(***************************************************************************)
\* the step completes the protection calls of an entry or an add on s, or a
\* stop request of tightenAllSLs for s
Completes(p, s) ==
  \/ /\ inv[p].pc \in {"setsl", "settrail"}
     /\ inv[p].symbol = s
     /\ inv'[p].status = "FILLED"
  \/ /\ inv[p].pc = "tighten"
     /\ heap[inv[p].cursor].symbol = s
     /\ inv'[p] # inv[p]

\* after the step a protection call for s is still to be answered
InFlightFor(s) ==
  \/ \E q \in Procs : /\ inv'[q].pc \in {"setsl", "settrail"}
                      /\ inv'[q].symbol = s
  \/ \E q \in Procs : /\ inv'[q].pc = "tighten"
                      /\ heap'[inv'[q].cursor].symbol = s
  \/ \E k \in DOMAIN tick : tick'[k].pc = "protect"
  \/ restores' # {}

C36AcceptedStop ==
  [][\A p \in Procs, s \in Symbols :
       (/\ Completes(p, s)
        /\ activePositions'[s] # 0
        /\ remote'[s].size > 0
        /\ ~InFlightFor(s)) =>
         heap'[activePositions'[s]].slPrice = remote'[s].stopLoss]_vars


(***************************************************************************)
(* C37: trades closed before the most recent PnL reset are never inserted  *)
(* into the PnL history by the backfill sweep, in a later sweep of the     *)
(* same process or after a restart: every record the sweep has put into    *)
(* the history since the reset at ResetTime is of a settlement made at or  *)
(* after ResetTime.                                                        *)
(***************************************************************************)
C37AfterReset ==
  \A i \in 1..Len(pnlHistory) :
    pnlHistory[i].exitType = "RECONCILED" => pnlHistory[i].closedAt >= ResetTime


(***************************************************************************)
(* C38: a position the reconciliation tick adopted as untracked has        *)
(* dcaLevel 0 and totalBudget 0, and no add order is ever submitted for    *)
(* it: an event that finds the adopted object in the Ledger never gets to  *)
(* the order submission and ends SKIPPED with no order accepted, and the   *)
(* object's level and budget stay 0.                                       *)
(***************************************************************************)
\* the invocation in slot p was given an adopted position object to add to
AddsToAdopted(p) == inv[p].ref # 0 /\ heap[inv[p].ref].origin = "detected"

C38AdoptedNoDca ==
  /\ \A i \in 1..Len(heap) :
       heap[i].origin = "detected" =>
         /\ heap[i].dcaLevel = 0
         /\ heap[i].totalBudget = 0
         /\ heap[i].orders = <<0, 0, 0, 0>>
  /\ \A p \in Procs :
       AddsToAdopted(p) =>
         /\ inv[p].pc \in {"vwap", "done"}
         /\ inv[p].accepted = 0
         /\ inv[p].pc = "done" => inv[p].status = "SKIPPED"

\* an event at the VWAP band found an adopted position and was skipped for
\* its missing budget
C38Witness ==
  \E p \in Procs :
    /\ AddsToAdopted(p)
    /\ inv[p].pc = "done"
    /\ inv[p].reason = "DCA: No budget info"
    /\ activePositions[inv[p].symbol] = inv[p].ref


(***************************************************************************)
(* C39: a reconciliation tick whose snapshot request fails changes         *)
(* nothing: the step in which the failure comes back ends the run and      *)
(* leaves the Ledger and its position objects, the close decisions, the    *)
(* settlement matches, the protection calls, the PnL history and the       *)
(* consumed ids as they were.                                              *)
(***************************************************************************)
C39FailedSnapshot ==
  [][\A k \in DOMAIN tick :
       TickSnapshot(k, FALSE) =>
         /\ tick'[k] = IdleTick
         /\ UNCHANGED <<activePositions, heap, recentlyClosedSymbols, match, restores,
                        pnlHistory, usedCloseOrderIds, remote, pendingSymbols>>]_vars

\* a run waits for its snapshot while the venue no longer holds the Ledger's
\* position, old enough to be declared closed: an answer would change the
\* state, a failure must not
C39Witness ==
  \E k \in DOMAIN tick, s \in Symbols :
    /\ tick[k].pc = "snapshot"
    /\ activePositions[s] # 0
    /\ remote[s].size = 0
    /\ (now - heap[activePositions[s]].openTime) * TimeUnitMs >= GraceMs
    /\ recentlyClosedSymbols[s] = 0


\* match m makes an attempt in this step: its request comes back
Attempt(m) == match[m].pc = "list" /\ match'[m] # match[m]

\* the attempt is followed by another one
Retries(m) == match'[m].pc = "list" /\ match'[m].attempt = match[m].attempt + 1

\* the venue's records of the symbol of match m that are not consumed
Unconsumed(m) ==
  LET Open(rec) == rec.symbol = match[m].symbol /\ rec.orderId \notin usedCloseOrderIds
  IN SelectSeq(closedPnl, Open)

\* C40, as stated: an attempt whose filtered candidate list is non-empty
\* selects a record and ends the retry loop, a retry follows only an attempt
\* whose request failed or whose candidate list was empty, and the position is
\* matched on the first attempt that sees any unconsumed record of its symbol
C40AnyUnconsumed ==
  [][\A m \in DOMAIN match :
       Attempt(m) =>
         /\ (MatchList(m, TRUE) /\ Filtered(m) # <<>>) => Selects(m)
         /\ Retries(m) => (MatchList(m, FALSE) \/ Filtered(m) = <<>>)
         /\ (MatchList(m, TRUE) /\ Unconsumed(m) # <<>>) => Selects(m)]_vars

\* C40, amended: an attempt whose filtered candidate list is non-empty
\* selects a record of that list and ends the retry loop, a retry follows only
\* an attempt whose request failed or whose candidate list was empty, and the
\* position is matched on the first attempt whose request succeeds and whose
\* candidate list, the unconsumed records that on the first four attempts are
\* not older than the position, is non-empty
C40FirstCandidate ==
  [][\A m \in DOMAIN match :
       Attempt(m) =>
         /\ (MatchList(m, TRUE) /\ Filtered(m) # <<>>) =>
              Selects(m) /\ match'[m].closeOrderId \in Ids(Filtered(m))
         /\ Retries(m) => (MatchList(m, FALSE) \/ Filtered(m) = <<>>)
         /\ Selects(m) => (MatchList(m, TRUE) /\ Filtered(m) # <<>>)]_vars

\* the only record the venue lists is older than the position: four attempts
\* saw it unconsumed and went on, the fifth has selected it
C40Witness ==
  \E m \in DOMAIN match :
    /\ match[m].pc = "fees" /\ match[m].attempt = maxRetries - 2
    /\ match[m].closeOrderId = 1
    /\ Len(closedPnl) = 1
    /\ closedPnl[1].createdTime < match[m].openTime
    /\ usedCloseOrderIds = {1}


=============================================================================
